---- MODULE Spec2Model ----
(***************************************************************************)
(* Model of the dashboard's live state store and its WebSocket driver      *)
(* (frontend/src/app/core/websocket.service.ts).                           *)
(*                                                                         *)
(* JavaScript values are tagged records: k is the kind ("undef", "null",   *)
(* "num", "arr", "obj"); an array carries its elements in a, an object its *)
(* own properties as further fields.  A trade or analytics record always   *)
(* carries id and its timestamp, 0 standing for a property that is absent. *)
(* Timestamps (evaluatedAt, created_at) are ISO-8601 strings in the        *)
(* program; the model writes them as the naturals 1..MaxAt, whose order is *)
(* the strings' lexicographic order, and 0 for the empty string.           *)
(* nmsgs counts the frames handled, last names the frame handled last.     *)
(***************************************************************************)
EXTENDS Integers, Sequences, FiniteSets, TLC

VARIABLES status, socket, readyState, urlOf, errored, nsock, timers,
          portfolio, positions, trades, analytics, nmsgs, last, uncaught

\* WsService (ws.service.ts): its memo of last prices, its data signals,
\* and the payload of the message it handled last
VARIABLES prevLastByAddress, wsStore, wsLast
conn == <<status, socket, readyState, urlOf, errored, nsock, timers>>
store == <<portfolio, positions, trades, analytics>>
\* a function of a component that is applied to an argument: the argument,
\* the function applied (none before the call) and what it returned
VARIABLES arg, fn, ret
\* the fields of AnalyticsComponent (analytics.component.ts) and of
\* PaperModeControlComponent, a record each
VARIABLES analyticsPage, paperControl
ws == <<prevLastByAddress, wsStore, wsLast>>
call == <<arg, fn, ret>>
pages == <<analyticsPage, paperControl>>
\* what no handler of WebSocketService touches
aside == <<ws, call, pages>>
vars == <<ws, call, pages, status, socket, readyState, urlOf, errored, nsock, timers,
          portfolio, positions, trades, analytics, nmsgs, last, uncaught>>

(* ------------------------------- bounds -------------------------------- *)
MaxSockets == 3
MaxMsgs == 2
MaxConnMsgs == 1
MaxAt == 3
\* the messages WsService receives
MaxWsMsgs == 2
\* the entries of the store when a details panel is opened
MaxRows == 2
\* the points of a scatter chart
MaxPoints == 5
\* the values of a sample binned, and of a sample of distinct values
MaxSample == 4
MaxRun == 12
\* the values of a histogram
MaxHist == 4
\* the samples of a bucket
MaxBucket == 4
\* the rows the charts are built from
MaxChartRows == 2
\* the cells of a row of a heatmap
MaxCells == 3

(* -------------------------- program constants -------------------------- *)
TradeCap == 200
\* the cap of the trades of WsService
WsTradeCap == 100
AnalyticsCap == 5000

(* --------------------------- JavaScript values ------------------------- *)
Undef == [k |-> "undef"]
Null == [k |-> "null"]
Num7 == [k |-> "num", n |-> 7]
Num(n) == [k |-> "num", n |-> n]
Str(t) == [k |-> "str", s |-> t]
IsNum(v) == v.k = "num"
\* Math.abs
Abs(n) == IF n < 0 THEN -n ELSE n
\* a value that is not a number (NaN)
NaN == [k |-> "nan"]
\* the texts of the model that Number() reads as a number: the empty text is 0
NumberOfText == [t \in {"", "110"} |-> IF t = "" THEN 0 ELSE 110]
\* Number(v) for a value that is not null or undefined
NumberOf(v) ==
    IF IsNum(v) THEN v
    ELSE IF v.k = "str" /\ v.s \in DOMAIN NumberOfText THEN Num(NumberOfText[v.s])
    ELSE NaN
Arr(s) == [k |-> "arr", a |-> s]

Nullish(v) == v.k \in {"undef", "null"}
Truthy(v) == ~Nullish(v)
\* ToBoolean(v): undefined, null, NaN, 0 and the empty text are false
ToBoolean(v) ==
    /\ v.k \notin {"undef", "null", "nan"}
    /\ ~(v.k = "str" /\ v.s = "")
    /\ ~(v.k = "num" /\ v.n = 0)
IsArray(v) == v.k = "arr"
\* v.f on a value that is not null/undefined
Prop(v, f) == IF v.k = "obj" /\ f \in DOMAIN v THEN v[f] ELSE Undef
\* v?.f
OptProp(v, f) == IF Nullish(v) THEN Undef ELSE Prop(v, f)
\* v ?? d
Coalesce(v, d) == IF Nullish(v) THEN d ELSE v
\* s.slice(a, b) for 0 <= a
slice(s, a, b) == SubSeq(s, a + 1, IF b < Len(s) THEN b ELSE Len(s))

\* r.id as a number, 0 standing for undefined
IdOf(r) == IF r.k = "obj" THEN r.id ELSE 0
\* (r.evaluatedAt || '')
EvalKey(r) == IF r.k = "obj" THEN r.evaluatedAt ELSE 0

RECURSIVE SortFrom(_, _)
SortFrom(rows, key) ==
    IF key < 0 THEN <<>>
    ELSE SelectSeq(rows, LAMBDA r: EvalKey(r) = key) \o SortFrom(rows, key - 1)
\* [...rows].sort((a, b) => (b.evaluatedAt || '').localeCompare(a.evaluatedAt || ''))
\* Array.prototype.sort is stable: equal keys keep their order.
sorted(rows) == SortFrom(rows, MaxAt)
\* the comparator reads .evaluatedAt of both arguments: a null entry throws
\* as soon as the comparator is called, that is when there are two entries
SortThrows(rows) == Len(rows) >= 2 /\ \E i \in 1..Len(rows): Nullish(rows[i])

(* ------------------------- the store and apply ------------------------- *)
\* the four data signals as one value
St == [portfolio |-> portfolio, positions |-> positions,
       trades |-> trades, analytics |-> analytics]

Done(st) == [st |-> st, threw |-> FALSE]
Thrown(st) == [st |-> st, threw |-> TRUE]

\* case 'init': three unconditional sets, then the sorted and cut analytics
ApplyInit(st, payload) ==
    LET st3 == [st EXCEPT
                  !.portfolio = Coalesce(OptProp(payload, "portfolio"), Null),
                  !.positions = Coalesce(OptProp(payload, "positions"), Arr(<<>>)),
                  !.trades = Coalesce(OptProp(payload, "trades"), Arr(<<>>))]
        an == OptProp(payload, "analytics")
        rows == IF IsArray(an) THEN an.a ELSE <<>>
    IN  IF SortThrows(rows) THEN Thrown(st3)
        ELSE Done([st3 EXCEPT !.analytics = slice(sorted(rows), 0, AnalyticsCap)])

\* case 'portfolio'
ApplyPortfolio(st, payload) ==
    Done([st EXCEPT !.portfolio = Coalesce(payload, Null)])

\* case 'positions'
ApplyPositions(st, payload) ==
    Done([st EXCEPT !.positions = Coalesce(payload, Arr(<<>>))])

\* ApplyTrades with the new list put in front of the stored one
ApplyTradesMerge(st, payload) ==
    IF IsArray(payload) /\ IsArray(st.trades)
    THEN Done([st EXCEPT !.trades = Arr(payload.a \o st.trades.a)])
    ELSE Done([st EXCEPT !.trades = Coalesce(payload, Arr(<<>>))])

\* case 'trades'
ApplyTrades(st, payload) ==
    Done([st EXCEPT !.trades = Coalesce(payload, Arr(<<>>))])

\* case 'trade': [row, ...existing].slice(0, 200); spreading a value that is
\* not iterable throws inside the update callback and the signal keeps its value
ApplyTrade(st, payload) ==
    IF ~IsArray(st.trades) THEN Thrown(st)
    ELSE Done([st EXCEPT !.trades = Arr(slice(<<payload>> \o st.trades.a, 0, TradeCap))])

\* previous.findIndex((r) => r.id === row.id): 0-based index of the first
\* match, -1 when there is none
findIndex(previous, row) ==
    LET hits == {i \in 1..Len(previous) :
                    Truthy(previous[i]) /\ IdOf(previous[i]) = IdOf(row)}
    IN  IF hits = {} THEN -1
        ELSE (CHOOSE i \in hits : \A j \in hits : i <= j) - 1
\* the callback reads r.id of every entry up to the first match: a null
\* entry met before a match throws
findIndexThrows(previous, row) ==
    \E i \in 1..Len(previous) :
        /\ Nullish(previous[i])
        /\ \A j \in 1..(i - 1) : Nullish(previous[j]) \/ IdOf(previous[j]) # IdOf(row)

\* ApplyAnalyticsArray without the sort
ApplyAnalyticsArrayUnsorted(st, payload) ==
    IF SortThrows(payload.a) THEN Thrown(st)
    ELSE Done([st EXCEPT !.analytics = slice(payload.a, 0, AnalyticsCap)])

\* case 'analytics', payload is an array
ApplyAnalyticsArray(st, payload) ==
    IF SortThrows(payload.a) THEN Thrown(st)
    ELSE Done([st EXCEPT !.analytics = slice(sorted(payload.a), 0, AnalyticsCap)])

\* ApplyAnalyticsRow without the cut after the prepend
ApplyAnalyticsRowNoCap(st, row) ==
    LET previous == st.analytics
        index == findIndex(previous, row)
    IN  IF findIndexThrows(previous, row) THEN Thrown(st)
        ELSE IF index >= 0
             THEN Done([st EXCEPT !.analytics[index + 1] = row])
             ELSE Done([st EXCEPT !.analytics = <<row>> \o previous])

\* ApplyAnalyticsRow that moves a replaced record to the front
ApplyAnalyticsRowToFront(st, row) ==
    LET previous == st.analytics
        index == findIndex(previous, row)
    IN  IF findIndexThrows(previous, row) THEN Thrown(st)
        ELSE IF index >= 0
             THEN Done([st EXCEPT !.analytics =
                          <<row>> \o SubSeq(previous, 1, index)
                                 \o SubSeq(previous, index + 2, Len(previous))])
             ELSE Done([st EXCEPT !.analytics = slice(<<row>> \o previous, 0, AnalyticsCap)])

\* case 'analytics', payload is a truthy value that is not an array
ApplyAnalyticsRow(st, row) ==
    LET previous == st.analytics
        index == findIndex(previous, row)
    IN  IF findIndexThrows(previous, row) THEN Thrown(st)
        ELSE IF index >= 0
             THEN Done([st EXCEPT !.analytics[index + 1] = row])
             ELSE Done([st EXCEPT !.analytics = slice(<<row>> \o previous, 0, AnalyticsCap)])

\* case 'analytics'
ApplyAnalytics(st, payload) ==
    IF IsArray(payload) THEN ApplyAnalyticsArray(st, payload)
    ELSE IF Truthy(payload) THEN ApplyAnalyticsRow(st, payload)
    ELSE Done(st)

\* apply whose default branch falls into the portfolio case
applyFallThrough(st, message) ==
    IF Nullish(message) THEN Thrown(st)
    ELSE LET type == message.type
             payload == message.payload
         IN  CASE type = "init" -> ApplyInit(st, payload)
               [] type = "positions" -> ApplyPositions(st, payload)
               [] type = "trades" -> ApplyTrades(st, payload)
               [] type = "trade" -> ApplyTrade(st, payload)
               [] type = "analytics" -> ApplyAnalytics(st, payload)
               [] type \in {"pong", "error"} -> Done(st)
               [] OTHER -> ApplyPortfolio(st, payload)

\* apply(message): message.type of null throws; pong, error and the default
\* branch only log
apply(st, message) ==
    IF Nullish(message) THEN Thrown(st)
    ELSE LET type == message.type
             payload == message.payload
         IN  CASE type = "init" -> ApplyInit(st, payload)
               [] type = "portfolio" -> ApplyPortfolio(st, payload)
               [] type = "positions" -> ApplyPositions(st, payload)
               [] type = "trades" -> ApplyTrades(st, payload)
               [] type = "trade" -> ApplyTrade(st, payload)
               [] type = "analytics" -> ApplyAnalytics(st, payload)
               [] OTHER -> Done(st)

(* ------------------------------- frames -------------------------------- *)
\* event.data is a text: one that JSON.parse rejects, or the text of a value
NotJson == [json |-> FALSE]
Json(v) == [json |-> TRUE, value |-> v]
Msg(type, payload) == Json([k |-> "obj", type |-> type, payload |-> payload])

PortfolioOf(equity) == [k |-> "obj", equity |-> equity]
PositionOf(address, price) ==
    [k |-> "obj", address |-> address, entry |-> Num(100), last_price |-> Num(price)]
TradeOf(id, at) == [k |-> "obj", id |-> id, created_at |-> at]
AnalyticsOf(id, at, rank) == [k |-> "obj", id |-> id, evaluatedAt |-> at, rank |-> rank]

\* a trades list longer than the cap, in no particular order
BigTrades == [i \in 1..(TradeCap + 1) |-> TradeOf(i, 2 + (i % (MaxAt - 1)))] \o <<>>
\* an analytics list longer than the cap, not sorted, timestamps 2..MaxAt
BigAnalytics == [i \in 1..(AnalyticsCap + 1) |-> AnalyticsOf(i, 2 + (i % (MaxAt - 1)), 0)] \o <<>>
SmallTrades == <<TradeOf(1, 2), TradeOf(2, 3)>>
SmallAnalytics == <<AnalyticsOf(1, 2, 0), AnalyticsOf(2, MaxAt, 0), AnalyticsOf(3, 3, 0)>>

InitFull ==
    [k |-> "obj", portfolio |-> PortfolioOf(100),
     positions |-> Arr(<<PositionOf("0xA", 100)>>),
     trades |-> Arr(SmallTrades), analytics |-> Arr(SmallAnalytics)]
InitBig ==
    [k |-> "obj", portfolio |-> PortfolioOf(250),
     trades |-> Arr(BigTrades), analytics |-> Arr(BigAnalytics)]
InitNullEntry ==
    [k |-> "obj", portfolio |-> PortfolioOf(250), positions |-> Arr(<<>>),
     trades |-> Arr(<<TradeOf(7, 1)>>),
     analytics |-> Arr(<<AnalyticsOf(7, 1, 0), Null>>)]
InitNotArrays == [k |-> "obj", positions |-> Num7, analytics |-> Num7]

\* the frames a server may send, by name
Frames ==
    [ notjson |-> NotJson,
      jsonnull |-> Json(Null),
      pong |-> Msg("pong", Undef),
      error |-> Msg("error", Num7),
      unknown |-> Msg("unknown_type", Undef),
      init |-> Msg("init", InitFull),
      initBig |-> Msg("init", InitBig),
      initNoPayload |-> Msg("init", Undef),
      initNullEntry |-> Msg("init", InitNullEntry),
      initNotArrays |-> Msg("init", InitNotArrays),
      portfolio |-> Msg("portfolio", PortfolioOf(300)),
      portfolioNoPayload |-> Msg("portfolio", Undef),
      positions |-> Msg("positions", Arr(<<PositionOf("0xA", 90)>>)),
      positionsNoPayload |-> Msg("positions", Undef),
      positionsNotArray |-> Msg("positions", Num7),
      trades |-> Msg("trades", Arr(SmallTrades)),
      tradesBig |-> Msg("trades", Arr(BigTrades)),
      tradesNoPayload |-> Msg("trades", Undef),
      tradesNotArray |-> Msg("trades", Num7),
      tradeNew |-> Msg("trade", TradeOf(8, MaxAt)),
      tradeOld |-> Msg("trade", TradeOf(9, 1)),
      tradeNoPayload |-> Msg("trade", Undef),
      analytics |-> Msg("analytics", Arr(SmallAnalytics)),
      analyticsBig |-> Msg("analytics", Arr(BigAnalytics)),
      analyticsNullEntry |-> Msg("analytics", Arr(<<Null, AnalyticsOf(1, 2, 0)>>)),
      rowKnown |-> Msg("analytics", AnalyticsOf(3, MaxAt, 1)),
      rowNew |-> Msg("analytics", AnalyticsOf(AnalyticsCap + 8, MaxAt, 0)),
      rowOld |-> Msg("analytics", AnalyticsOf(AnalyticsCap + 9, 1, 0)),
      rowNoId |-> Msg("analytics", AnalyticsOf(0, 2, 5)),
      rowNull |-> Msg("analytics", Null) ]
FrameNames == DOMAIN Frames
\* the frames that carry a list longer than a cap
BigFrames == {"initBig", "tradesBig", "analyticsBig"}

(* ------------------------------ WsService ------------------------------ *)
\* the addresses of the positions a server sends
Addresses == {"0xA", "0xB"}

\* toNumOrNull(v): null for null and undefined, Number(v) when it is finite,
\* null otherwise (a text that is not a number gives NaN)
toNumOrNull(v) ==
    IF Nullish(v) THEN Null
    ELSE IF IsNum(NumberOf(v)) THEN NumberOf(v)
    ELSE Null

\* a position as the server sends it
RawPosition(address, entry, lastPrice) ==
    [k |-> "obj", address |-> address, entry |-> entry, last_price |-> lastPrice]

\* ((last - entry) / entry) * 100; the prices of the model make it a whole
\* number
PctOf(lastN, entryN) == ((lastN - entryN) * 100) \div entryN

\* the callback of map for one incoming position p: the enriched position
\* and the memo after it
EnrichOne(p, memo) ==
    LET lastV == toNumOrNull(p.last_price)
        entryV == toNumOrNull(p.entry)
        prev == memo[p.address]
        dir == IF lastV # Null /\ prev # Undef
               THEN IF lastV.n > prev.n THEN "up"
                    ELSE IF lastV.n < prev.n THEN "down" ELSE "flat"
               ELSE "flat"
        changePct == IF lastV # Null /\ entryV # Null /\ entryV.n > 0
                     THEN Num(PctOf(lastV.n, entryV.n))
                     ELSE Null
    IN  [view |-> [k |-> "obj", address |-> p.address, entry |-> p.entry,
                   last_price |-> lastV, _lastDir |-> dir, _changePct |-> changePct],
         memo |-> IF lastV # Null THEN [memo EXCEPT ![p.address] = lastV] ELSE memo]

\* (msg.payload ?? []).map(...): the positions are enriched in their order,
\* each with the memo the ones before it have left
RECURSIVE EnrichFrom(_, _, _, _)
EnrichFrom(incoming, i, memo, out) ==
    IF i > Len(incoming) THEN [views |-> out, memo |-> memo]
    ELSE LET r == EnrichOne(incoming[i], memo)
         IN  EnrichFrom(incoming, i + 1, r.memo, Append(out, r.view))

\* WsService.apply(msg)
WsApply(msg) ==
    LET type == msg.type
        payload == msg.payload
    IN  CASE type = "init" ->
               /\ wsStore' = [meta |-> Coalesce(OptProp(payload, "meta"), Null),
                              portfolio |-> Coalesce(OptProp(payload, "portfolio"), Null),
                              positions |-> Coalesce(OptProp(payload, "positions"), Arr(<<>>)),
                              trades |-> Coalesce(OptProp(payload, "trades"), Arr(<<>>))]
               /\ UNCHANGED prevLastByAddress
          [] type = "portfolio" ->
               /\ wsStore' = [wsStore EXCEPT !.portfolio = Coalesce(payload, Null)]
               /\ UNCHANGED prevLastByAddress
          [] type = "positions" ->
               LET r == EnrichFrom(Coalesce(payload, Arr(<<>>)).a, 1,
                                   prevLastByAddress, <<>>)
               IN  /\ wsStore' = [wsStore EXCEPT !.positions = Arr(r.views)]
                   /\ prevLastByAddress' = r.memo
          [] type = "trade" ->
               /\ wsStore' = [wsStore EXCEPT !.trades =
                      Arr(slice(<<payload>> \o wsStore.trades.a, 0, WsTradeCap))]
               /\ UNCHANGED prevLastByAddress
          [] OTHER -> UNCHANGED <<wsStore, prevLastByAddress>>

\* the prices and entries a server sends
WsPrices == {Null, Num(90), Num(100), Num(110)}
WsItems ==
    {RawPosition(a, Num(100), l) : a \in Addresses, l \in WsPrices}
\* positions whose entry or price is absent, null, not a number, zero, negative
WsOddItems ==
    {RawPosition("0xA", e, l) :
        e \in {Undef, Null, Str("abc"), Num(0), Num(-100), Num(50)},
        l \in WsPrices \cup {Undef, Str("abc")}}
\* the positions lists: empty, one position, two positions
WsBatches ==
    {<<>>} \cup {<<p>> : p \in WsItems \cup WsOddItems}
           \cup {<<p, q>> : p \in WsItems, q \in WsItems}
\* the messages a server sends to WsService
WsMessages ==
    {[k |-> "obj", type |-> "init",
      payload |-> [k |-> "obj", portfolio |-> PortfolioOf(100), positions |-> Arr(b)]] :
         b \in {<<>>, <<RawPosition("0xA", Num(100), Num(100))>>,
                <<RawPosition("0xA", Num(100), Null)>>}}
    \cup {[k |-> "obj", type |-> "positions", payload |-> Arr(b)] : b \in WsBatches}
    \cup {[k |-> "obj", type |-> "positions", payload |-> Undef],
          [k |-> "obj", type |-> "portfolio", payload |-> PortfolioOf(300)],
          [k |-> "obj", type |-> "trade", payload |-> TradeOf(8, MaxAt)],
          [k |-> "obj", type |-> "pong", payload |-> Undef]}

(* ------------------------------ the pages ------------------------------ *)
\* the charts of the analytics page that are scrolled in and out of view
ViewedKeys == {"liq", "p6h"}
\* AnalyticsComponent after construction: rows counts the collections set (0
\* is the empty collection of the constructor), request is the HTTP load,
\* series holds for each chart what it was built from (none before)
AnalyticsComponent ==
    [rows |-> 0, request |-> "none",
     pnlAxisMode |-> "pct", showTrend |-> TRUE, showIqrBand |-> TRUE, useLogX |-> TRUE,
     visible |-> [k \in ViewedKeys |-> FALSE],
     series |-> [k \in ViewedKeys |-> [k |-> "none"]],
     drivers |-> [k |-> "none"]]
\* PaperModeControlComponent after construction: request is the HTTP reset,
\* response how the last one ended, sent the sockets a refresh message was
\* sent on, threw whether a handler of the response ended with an exception
PaperModeControlComponent ==
    [isResetting |-> FALSE, request |-> "none", response |-> "none",
     sent |-> {}, threw |-> FALSE]

(* ----------------------------- the service ----------------------------- *)
\* defaultWsUrl(): `${protocol}//${location.host}/ws`
defaultWsUrl == "//host/ws"
\* the delay of the reconnect timer
ReconnectDelayMs == 3000
Sockets == 1..MaxSockets
Live(s) == readyState[s] \in {"CONNECTING", "OPEN"}

\* no function of a component is being applied
NoCall == arg = Undef /\ fn = "none" /\ ret = Undef

\* the data signals of WebSocketService after construction
EmptyStore ==
    /\ portfolio = Null
    /\ positions = Arr(<<>>)
    /\ trades = Arr(<<>>)
    /\ analytics = <<>>

\* the two services after construction, but for these signals
Unconnected ==
    /\ status = "closed"
    /\ socket = 0
    /\ readyState = [s \in Sockets |-> "NONE"]
    /\ urlOf = [s \in Sockets |-> "none"]
    /\ errored = {}
    /\ nsock = 0
    /\ timers = <<>>
    /\ nmsgs = 0
    /\ last = "none"
    /\ uncaught = FALSE
    /\ prevLastByAddress = [a \in Addresses |-> Undef]
    /\ wsStore = [meta |-> Null, portfolio |-> Null,
                  positions |-> Arr(<<>>), trades |-> Arr(<<>>)]
    /\ wsLast = Undef
    /\ analyticsPage = AnalyticsComponent
    /\ paperControl = PaperModeControlComponent

\* the two services after construction
Services == Unconnected /\ EmptyStore

Init == Services /\ NoCall

\* connect that sets the status before it tests the referenced socket
connectStatusFirst(url) ==
    IF socket # 0 /\ Live(socket)
    THEN status' = "connecting" /\ UNCHANGED <<socket, readyState, urlOf, nsock>>
    ELSE /\ nsock < MaxSockets
         /\ status' = "connecting"
         /\ nsock' = nsock + 1
         /\ socket' = nsock + 1
         /\ readyState' = [readyState EXCEPT ![nsock + 1] = "CONNECTING"]
         /\ urlOf' = [urlOf EXCEPT ![nsock + 1] = url]

\* connect(url): return when the referenced socket is CONNECTING or OPEN,
\* otherwise set the status and create and reference a new socket
connect(url) ==
    IF socket # 0 /\ Live(socket)
    THEN UNCHANGED <<status, socket, readyState, urlOf, nsock>>
    ELSE /\ nsock < MaxSockets
         /\ status' = "connecting"
         /\ nsock' = nsock + 1
         /\ socket' = nsock + 1
         /\ readyState' = [readyState EXCEPT ![nsock + 1] = "CONNECTING"]
         /\ urlOf' = [urlOf EXCEPT ![nsock + 1] = url]

\* connect() called by a component's ngOnInit (dashboard, navigation)
PageConnect ==
    /\ connect(defaultWsUrl)
    /\ UNCHANGED <<errored, timers, store, nmsgs, last, uncaught, aside>>

\* the callback of setTimeout(() => this.connect(url), 3000): the timers
\* have one delay, so they fire in the order they were armed
ReconnectTimer ==
    /\ timers # <<>>
    /\ timers' = Tail(timers)
    /\ connect(Head(timers).url)
    /\ UNCHANGED <<errored, store, nmsgs, last, uncaught, aside>>

\* the browser opens the connection and calls socket.onopen
SocketOpen(s) ==
    /\ readyState[s] = "CONNECTING"
    /\ readyState' = [readyState EXCEPT ![s] = "OPEN"]
    /\ status' = "open"
    /\ UNCHANGED <<socket, urlOf, errored, nsock, timers,
                   store, nmsgs, last, uncaught, aside>>

\* the closing handshake starts (close frame of the server): no handler runs
SocketClosing(s) ==
    /\ readyState[s] = "OPEN"
    /\ readyState' = [readyState EXCEPT ![s] = "CLOSING"]
    /\ UNCHANGED <<status, socket, urlOf, errored, nsock, timers,
                   store, nmsgs, last, uncaught, aside>>

\* socket.onclose of the socket created by connect(url) without a timer
oncloseNoTimer(url) ==
    /\ status' = "closed"
    /\ socket' = 0
    /\ timers' = timers

\* socket.onclose of the socket created by connect(url): status closed,
\* reference dropped, setTimeout(() => this.connect(url), 3000)
onclose(url) ==
    /\ status' = "closed"
    /\ socket' = 0
    /\ timers' = Append(timers, [url |-> url, delay |-> ReconnectDelayMs])

\* SocketClose where the close event also empties the data signals
SocketCloseClears(s) ==
    /\ readyState[s] \in {"OPEN", "CLOSING"}
    /\ readyState' = [readyState EXCEPT ![s] = "CLOSED"]
    /\ onclose(urlOf[s])
    /\ portfolio' = Null
    /\ positions' = Arr(<<>>)
    /\ trades' = Arr(<<>>)
    /\ analytics' = <<>>
    /\ UNCHANGED <<urlOf, errored, nsock, nmsgs, last, uncaught, aside>>

\* the connection is closed cleanly: the browser calls socket.onclose
SocketClose(s) ==
    /\ readyState[s] \in {"OPEN", "CLOSING"}
    /\ readyState' = [readyState EXCEPT ![s] = "CLOSED"]
    /\ onclose(urlOf[s])
    /\ UNCHANGED <<urlOf, errored, nsock, store, nmsgs, last, uncaught, aside>>

\* socket.onerror: the status is set, nothing else
onerror == status' = "closed"

\* SocketError where the error event is not followed by a close event
SocketErrorOnly(s) ==
    /\ readyState[s] \in {"CONNECTING", "OPEN", "CLOSING"}
    /\ readyState' = [readyState EXCEPT ![s] = "CLOSED"]
    /\ errored' = errored \cup {s}
    /\ onerror
    /\ UNCHANGED <<socket, timers, urlOf, nsock, store, nmsgs, last, uncaught, aside>>

\* the connection fails: in one task the browser sets readyState to CLOSED
\* and fires the error event (socket.onerror) and then the close event
\* (socket.onclose)
SocketError(s) ==
    /\ readyState[s] \in {"CONNECTING", "OPEN", "CLOSING"}
    /\ readyState' = [readyState EXCEPT ![s] = "CLOSED"]
    /\ errored' = errored \cup {s}
    /\ onerror
    /\ onclose(urlOf[s])
    /\ UNCHANGED <<urlOf, nsock, store, nmsgs, last, uncaught, aside>>

\* socket.onmessage: JSON.parse and apply inside one try/catch, so that
\* neither a parse error nor an exception of apply leaves the handler
onmessage(frame) ==
    LET r == IF ~frame.json THEN Thrown(St) ELSE apply(St, frame.value)
    IN  [st |-> r.st, escaped |-> FALSE]

\* the frame named name arrives on an open socket
OnMessage(s, name) ==
    /\ readyState[s] = "OPEN"
    /\ LET r == onmessage(Frames[name])
       IN  /\ portfolio' = r.st.portfolio
           /\ positions' = r.st.positions
           /\ trades' = r.st.trades
           /\ analytics' = r.st.analytics
           /\ uncaught' = (uncaught \/ r.escaped)
    /\ nmsgs' = nmsgs + 1
    /\ last' = name
    /\ UNCHANGED <<conn, aside>>

Deliver(names, max) ==
    \E s \in Sockets, name \in names : nmsgs < max /\ OnMessage(s, name)

\* the whole service: page code, timers, socket events and frames
Next ==
    \/ PageConnect
    \/ ReconnectTimer
    \/ \E s \in Sockets : SocketOpen(s)
    \/ \E s \in Sockets : SocketClosing(s)
    \/ \E s \in Sockets : SocketClose(s)
    \/ \E s \in Sockets : SocketError(s)
    \/ Deliver(FrameNames \ BigFrames, MaxConnMsgs)

Spec == Init /\ [][Next]_vars

\* one connection that stays open: the store under a stream of frames
NextStore ==
    \/ PageConnect
    \/ \E s \in Sockets : SocketOpen(s)
    \/ Deliver(FrameNames, MaxMsgs)

SpecStore == Init /\ [][NextStore]_vars

\* the frames delivered while the reconnections are followed: one that is
\* not JSON, one that replaces the store, one that updates it
LiveFrames == {"notjson", "init", "tradeNew"}

\* the whole service under these frames
NextLive ==
    \/ PageConnect
    \/ ReconnectTimer
    \/ \E s \in Sockets : SocketOpen(s)
    \/ \E s \in Sockets : SocketClosing(s)
    \/ \E s \in Sockets : SocketClose(s)
    \/ \E s \in Sockets : SocketError(s)
    \/ Deliver(LiveFrames, MaxConnMsgs)

\* the service when every armed reconnect timer fires
SpecLive == Init /\ [][NextLive]_vars /\ WF_vars(ReconnectTimer)

\* WsService: socket.onmessage with the message msg (JSON.parse and apply
\* inside one try/catch)
WsOnMessage(msg) ==
    /\ nmsgs < MaxWsMsgs
    /\ WsApply(msg)
    /\ wsLast' = msg
    /\ nmsgs' = nmsgs + 1
    /\ UNCHANGED <<conn, store, last, uncaught, call, pages>>

NextWs == \E msg \in WsMessages : WsOnMessage(msg)

\* WsService under a stream of messages
SpecWs == Init /\ [][NextWs]_vars

(* ----------------------- the positions table -------------------------- *)
\* NumberFormattingService.toNumberSafe(value)
toNumberSafe(value) ==
    IF Nullish(value) THEN Null
    ELSE IF IsNum(NumberOf(value)) THEN NumberOf(value)
    ELSE Null

\* PositionsTableComponent.computeDeltaPercent(row)
computeDeltaPercent(row) ==
    IF Nullish(row) THEN Null
    ELSE LET enriched == toNumberSafe(Prop(row, "_changePct"))
             lastV == toNumberSafe(Prop(row, "last_price"))
             entryV == toNumberSafe(Prop(row, "entry"))
         IN  IF enriched # Null THEN enriched
             ELSE IF lastV = Null \/ entryV = Null \/ entryV = Num(0) THEN Null
             ELSE Num(((lastV.n - entryV.n) * 100) \div Abs(entryV.n))

\* PositionsTableComponent.deltaPercent(row)
deltaPercent(row) == Coalesce(computeDeltaPercent(row), Num(0))

\* the rows the table is given: null, and positions with every kind of
\* enrichment, price and entry
TableValues == {Undef, Null, Str(""), Str("abc")}
TableRows ==
    {Null} \cup
    {[k |-> "obj", address |-> "0xA", entry |-> e, last_price |-> l, _changePct |-> c] :
        e \in TableValues \cup {Num(0), Num(100), Num(-100)},
        l \in TableValues \cup {Num(90), Num(110)},
        c \in TableValues \cup {Num(0), Num(5)}}

InitDelta == Services /\ arg \in TableRows /\ fn = "none" /\ ret = Undef

\* the grid reads the value of the column: computeDeltaPercent(p.data ?? null)
ComputeDeltaPercent ==
    /\ fn = "none"
    /\ fn' = "computeDeltaPercent"
    /\ ret' = computeDeltaPercent(arg)
    /\ UNCHANGED <<arg, ws, pages, conn, store, nmsgs, last, uncaught>>

\* a caller reads deltaPercent(row)
DeltaPercent ==
    /\ fn = "none"
    /\ fn' = "deltaPercent"
    /\ ret' = deltaPercent(arg)
    /\ UNCHANGED <<arg, ws, pages, conn, store, nmsgs, last, uncaught>>

NextDelta == ComputeDeltaPercent \/ DeltaPercent

\* the percentage change of a row
SpecDelta == InitDelta /\ [][NextDelta]_vars

(* ------------------ the details of a position or trade ---------------- *)
\* an analytics record of a pair and a token, evaluated at the time at
AnalyticsFor(id, pair, token, at) ==
    [k |-> "obj", id |-> id, evaluatedAt |-> at, pairAddress |-> pair, tokenAddress |-> token]
\* a position or a trade, as far as its addresses go
EntityOf(pair, token) == [k |-> "obj", pairAddress |-> pair, tokenAddress |-> token]

\* (a.pairAddress && a.pairAddress === e.pairAddress) ||
\* (a.tokenAddress && a.tokenAddress === e.tokenAddress)
SharesAddress(a, e) ==
    \/ ToBoolean(Prop(a, "pairAddress")) /\ Prop(a, "pairAddress") = Prop(e, "pairAddress")
    \/ ToBoolean(Prop(a, "tokenAddress")) /\ Prop(a, "tokenAddress") = Prop(e, "tokenAddress")

\* findBestAnalyticsFor without the sort of the candidates
findBestAnalyticsUnsorted(entity, rows) ==
    IF ~ToBoolean(entity) THEN Null
    ELSE LET candidates == SelectSeq(rows, LAMBDA a : SharesAddress(a, entity))
         IN  IF Len(candidates) = 0 THEN Null
             ELSE candidates[1]

\* findBestAnalyticsForPosition(position) and findBestAnalyticsForTrade(trade)
\* on the analytics of the store: filter, sort by evaluatedAt descending,
\* first candidate
findBestAnalyticsFor(entity, rows) ==
    IF ~ToBoolean(entity) THEN Null
    ELSE LET candidates == SelectSeq(rows, LAMBDA a : SharesAddress(a, entity))
         IN  IF Len(candidates) = 0 THEN Null
             ELSE sorted(candidates)[1]

\* the addresses of pairs and tokens: absent, empty, or an address
PairAddresses == {Undef, Str(""), Str("P1"), Str("P2")}
TokenAddresses == {Undef, Str("T1")}
\* the analytics records of the store: evaluatedAt absent, early, late
AnalyticsRecords ==
    {AnalyticsFor(1, pa, t, at) :
        pa \in PairAddresses \ {Str("P2")}, t \in TokenAddresses, at \in {0, 1, MaxAt}}
\* the lists of at most n elements of the set S
RECURSIVE ListsOf(_, _)
ListsOf(S, n) ==
    IF n = 0 THEN {<<>>}
    ELSE LET shorter == ListsOf(S, n - 1)
         IN  shorter \cup {Append(l, x) : l \in shorter, x \in S}
\* the positions and trades of which the details are opened
Entities ==
    {Null} \cup {EntityOf(pa, t) : pa \in PairAddresses, t \in TokenAddresses \cup {Str("T2")}}

InitBest ==
    /\ Unconnected
    /\ portfolio = Null /\ positions = Arr(<<>>) /\ trades = Arr(<<>>)
    /\ analytics \in ListsOf(AnalyticsRecords, MaxRows)
    /\ arg \in Entities
    /\ fn = "none"
    /\ ret = Undef

\* the details of a position are opened
FindBestAnalyticsForPosition ==
    /\ fn = "none"
    /\ fn' = "findBestAnalyticsForPosition"
    /\ ret' = findBestAnalyticsFor(arg, analytics)
    /\ UNCHANGED <<arg, ws, pages, conn, store, nmsgs, last, uncaught>>

\* the details of a trade are opened
FindBestAnalyticsForTrade ==
    /\ fn = "none"
    /\ fn' = "findBestAnalyticsForTrade"
    /\ ret' = findBestAnalyticsFor(arg, analytics)
    /\ UNCHANGED <<arg, ws, pages, conn, store, nmsgs, last, uncaught>>

NextBest == FindBestAnalyticsForPosition \/ FindBestAnalyticsForTrade

\* the analytics record shown with a position or a trade
SpecBest == InitBest /\ [][NextBest]_vars

(* ---------------------- the trade behind a position ------------------- *)
\* a trade of a side and a pair, created at the time at
TradeRow(id, side, pair, at) ==
    [k |-> "obj", id |-> id, side |-> side, pairAddress |-> pair, created_at |-> at]
\* a position of a pair, opened at the time at (0: no opened_at)
PositionRow(pair, at) == [k |-> "obj", pairAddress |-> pair, opened_at |-> at]

\* new Date(v ?? 0).getTime(), the times of the model being milliseconds and
\* 0 standing for a field that is absent
TimeOf(row, f) == IF row.k = "obj" /\ f \in DOMAIN row THEN row[f] ELSE 0
\* Math.abs(at - opened) of the trade t
DeltaTo(t, opened) == Abs(TimeOf(t, "created_at") - opened)

\* candidates.sort((a, b) => Math.abs(at - opened) - Math.abs(bt - opened)):
\* ascending, equal differences keep their order
RECURSIVE ByDeltaFrom(_, _, _)
ByDeltaFrom(candidates, opened, d) ==
    IF d > MaxAt THEN <<>>
    ELSE SelectSeq(candidates, LAMBDA t : DeltaTo(t, opened) = d)
            \o ByDeltaFrom(candidates, opened, d + 1)

\* t.side === 'BUY' && t.pairAddress === position.pairAddress
IsOriginCandidate(t, position) ==
    /\ Prop(t, "side") = "BUY"
    /\ Prop(t, "pairAddress") = Prop(position, "pairAddress")

\* findOriginBuyTrade without the sort of the candidates
findOriginBuyTradeUnsorted(position, list) ==
    IF ~ToBoolean(position) THEN Null
    ELSE LET candidates == SelectSeq(list, LAMBDA t : IsOriginCandidate(t, position))
         IN  IF Len(candidates) = 0 THEN Null
             ELSE candidates[1]

\* findOriginBuyTrade(position) on the trades of the store
findOriginBuyTrade(position, list) ==
    IF ~ToBoolean(position) THEN Null
    ELSE LET candidates == SelectSeq(list, LAMBDA t : IsOriginCandidate(t, position))
             opened == TimeOf(position, "opened_at")
         IN  IF Len(candidates) = 0 THEN Null
             ELSE ByDeltaFrom(candidates, opened, 0)[1]

\* the trades of the store
TradeRows ==
    {TradeRow(1, side, pa, at) :
        side \in {"BUY", "SELL"}, pa \in {Undef, Str("P1")}, at \in 1..MaxAt}
\* the positions of which the details are opened
PositionRows ==
    {Null} \cup {PositionRow(pa, at) : pa \in {Undef, Str("P1"), Str("P2")}, at \in 0..MaxAt}

InitOrigin ==
    /\ Unconnected
    /\ portfolio = Null /\ positions = Arr(<<>>) /\ analytics = <<>>
    /\ trades \in {Arr(l) : l \in ListsOf(TradeRows, MaxRows)}
    /\ arg \in PositionRows
    /\ fn = "none"
    /\ ret = Undef

\* the details of a position are opened
FindOriginBuyTrade ==
    /\ fn = "none"
    /\ fn' = "findOriginBuyTrade"
    /\ ret' = findOriginBuyTrade(arg, Coalesce(trades, Arr(<<>>)).a)
    /\ UNCHANGED <<arg, ws, pages, conn, store, nmsgs, last, uncaught>>

NextOrigin == FindOriginBuyTrade

\* the BUY trade shown with a position
SpecOrigin == InitOrigin /\ [][NextOrigin]_vars

(* ------------------------- the analytics charts ------------------------ *)
\* a point of a scatter chart
ScatterPoint(x, y) == [x |-> x, y |-> y]
\* points[j], j counted from 0
At(points, j) == points[j + 1]
\* Math.floor(m * bucketSize) for bucketSize = (n - 2) / (threshold - 2),
\* threshold > 2
FloorOfBuckets(m, n, threshold) == (m * (n - 2)) \div (threshold - 2)
\* the sum of f over points[from .. to - 1]
RECURSIVE SumOver(_, _, _, _)
SumOver(points, f, from, to) ==
    IF from >= to THEN 0
    ELSE At(points, from)[f] + SumOver(points, f, from + 1, to)

\* twice the triangle area of points[a], points[j] and the average of the
\* next bucket, times the number count of points of that bucket (the average
\* is sumX / count, sumY / count, or 0, 0 when count is 0)
ScaledArea(points, a, j, sumX, sumY, count) ==
    LET c == IF count > 0 THEN count ELSE 1
        ax == At(points, a).x
        ay == At(points, a).y
        q == At(points, j)
    IN  Abs((ax * c - sumX) * (q.y - ay) - (ax - q.x) * (sumY - ay * c))

\* the inner loop: the first j of rangeStart .. rangeEnd - 1 with the largest
\* area (area > maxArea, maxArea starting at -1)
RECURSIVE ChooseFrom(_, _, _, _, _, _, _, _)
ChooseFrom(points, a, j, rangeEnd, sumX, sumY, count, best) ==
    IF j >= rangeEnd THEN best
    ELSE LET area == ScaledArea(points, a, j, sumX, sumY, count)
         IN  IF best.area < area
             THEN ChooseFrom(points, a, j + 1, rangeEnd, sumX, sumY, count,
                             [j |-> j, area |-> area])
             ELSE ChooseFrom(points, a, j + 1, rangeEnd, sumX, sumY, count, best)

\* the outer loop from bucket i on: the points chosen, a being the index of
\* the point chosen last (points.indexOf(chosen): each point is one object)
RECURSIVE BucketsFrom(_, _, _, _)
BucketsFrom(points, threshold, i, a) ==
    IF i >= threshold - 2 THEN <<>>
    ELSE LET n == Len(points)
             start == FloorOfBuckets(i + 1, n, threshold) + 1
             end == FloorOfBuckets(i + 2, n, threshold) + 1
             endClamped == IF end < n THEN end ELSE n
             count == IF endClamped > start THEN endClamped - start ELSE 0
             sumX == SumOver(points, "x", start, endClamped)
             sumY == SumOver(points, "y", start, endClamped)
             rangeStart == FloorOfBuckets(i, n, threshold) + 1
             rangeEnd == FloorOfBuckets(i + 1, n, threshold) + 1
             chosen == ChooseFrom(points, a, rangeStart, rangeEnd, sumX, sumY, count,
                                  [j |-> start, area |-> -1])
         IN  <<At(points, chosen.j)>> \o BucketsFrom(points, threshold, i + 1, chosen.j)

\* lttb without the push of the last point
lttbNoLast(points, threshold) ==
    LET n == Len(points)
    IN  IF threshold >= n \/ threshold <= 0 THEN points
        ELSE <<At(points, 0)>> \o BucketsFrom(points, threshold, 0, 0)

\* AnalyticsComponent.lttb(points, threshold)
lttb(points, threshold) ==
    LET n == Len(points)
    IN  IF threshold >= n \/ threshold <= 0 THEN points
        ELSE <<At(points, 0)>> \o BucketsFrom(points, threshold, 0, 0)
                 \o <<At(points, n - 1)>>

\* the points of a chart and the thresholds lttb is given
ScatterPoints == {ScatterPoint(0, 0), ScatterPoint(1, 2), ScatterPoint(2, 1), ScatterPoint(1, 1)}
Thresholds == (-1)..(MaxPoints + 1)

InitLttb ==
    /\ Unconnected /\ EmptyStore
    /\ arg \in [points : ListsOf(ScatterPoints, MaxPoints), threshold : Thresholds]
    /\ fn = "none"
    /\ ret = Undef

\* buildScatter decimates the points of the chart
Lttb ==
    /\ fn = "none"
    /\ fn' = "lttb"
    /\ ret' = lttb(arg.points, arg.threshold)
    /\ UNCHANGED <<arg, ws, pages, conn, store, nmsgs, last, uncaught>>

NextLttb == Lttb

\* the decimation of the points of a chart
SpecLttb == InitLttb /\ [][NextLttb]_vars

\* [...values].sort((a, b) => a - b): v put after the values not above it
RECURSIVE InsertAsc(_, _)
InsertAsc(s, v) ==
    IF s = <<>> THEN <<v>>
    ELSE IF Head(s) <= v THEN <<Head(s)>> \o InsertAsc(Tail(s), v)
    ELSE <<v>> \o s
RECURSIVE SortAsc(_)
SortAsc(values) ==
    IF values = <<>> THEN <<>>
    ELSE InsertAsc(SortAsc(SubSeq(values, 1, Len(values) - 1)), values[Len(values)])

\* AnalyticsComponent.quantile(sortedAsc, i / 10), in tenths: pos is
\* (n - 1) * i / 10, base its floor, rest its fraction, the result
\* a + (b - a) * rest
quantile(sortedAsc, i) ==
    LET n == Len(sortedAsc)
        base == ((n - 1) * i) \div 10
        restTenths == ((n - 1) * i) % 10
        a == At(sortedAsc, base)
        b == IF base + 1 < n THEN At(sortedAsc, base + 1) ELSE a
    IN  IF n = 0 THEN 0 ELSE 10 * a + (b - a) * restTenths

\* decileEdges without the sort
decileEdgesUnsorted(values) ==
    [i \in 1..11 |-> quantile(values, i - 1)]

\* AnalyticsComponent.decileEdges(values): the eleven edges, in tenths
decileEdges(values) ==
    [i \in 1..11 |-> quantile(SortAsc(values), i - 1)]

isFinite(v) == v \in Int

\* the first i with edges[i] <= v <= edges[i + 1], from i on
RECURSIVE BinFrom(_, _, _)
BinFrom(v, edges, i) ==
    LET lastBin == Len(edges) - 2
    IN  IF i >= Len(edges) - 1 THEN lastBin
        ELSE IF 10 * v >= At(edges, i) /\ 10 * v <= At(edges, i + 1) THEN (IF i < lastBin THEN i ELSE lastBin)
        ELSE BinFrom(v, edges, i + 1)

\* AnalyticsComponent.binIndex(v, edges), the edges in tenths
binIndex(v, edges) ==
    IF ~isFinite(v) THEN 0 ELSE BinFrom(v, edges, 0)

\* the samples binned: short samples of any values, in any order and with
\* repeated values, and longer samples of distinct values
SampleValues == 1..5
Runs ==
    UNION {{[i \in 1..n |-> i], [i \in 1..n |-> n + 1 - i], [i \in 1..n |-> i * i]} :
           n \in 1..MaxRun}
Samples == (ListsOf(SampleValues, MaxSample) \ {<<>>}) \cup {r \o <<>> : r \in Runs}

InitDeciles ==
    /\ Unconnected /\ EmptyStore
    /\ arg \in Samples
    /\ fn = "none"
    /\ ret = Undef

\* the edges of the sample
DecileEdges ==
    /\ fn = "none"
    /\ fn' = "decileEdges"
    /\ ret' = [edges |-> decileEdges(arg), bins |-> <<>>]
    /\ UNCHANGED <<arg, ws, pages, conn, store, nmsgs, last, uncaught>>

\* the loop over the sample: the bin of each value
BinIndex ==
    /\ fn = "decileEdges"
    /\ fn' = "binIndex"
    /\ ret' = [ret EXCEPT !.bins = [i \in 1..Len(arg) |-> binIndex(arg[i], ret.edges)] \o <<>>]
    /\ UNCHANGED <<arg, ws, pages, conn, store, nmsgs, last, uncaught>>

NextDeciles == DecileEdges \/ BinIndex

\* the decile bins of a sample
SpecDeciles == InitDeciles /\ [][NextDeciles]_vars

(* ----------------- the histograms of the earlier charts ---------------- *)
\* the numbers of JavaScript that are not finite, next to Num(n) and NaN
Infinity == [k |-> "inf"]
NegInfinity == [k |-> "-inf"]
\* Number.isFinite(v) for a number v
IsFiniteNumber(v) == v.k = "num"

\* a - b
Minus(a, b) ==
    IF a = NaN \/ b = NaN THEN NaN
    ELSE IF IsNum(a) /\ IsNum(b) THEN Num(a.n - b.n)
    ELSE IF a = b THEN NaN
    ELSE IF a = Infinity \/ b = NegInfinity THEN Infinity
    ELSE NegInfinity

\* a < b for two numbers, none of them NaN
Below(a, b) ==
    IF IsNum(a) /\ IsNum(b) THEN a.n < b.n
    ELSE a # b /\ (a = NegInfinity \/ b = Infinity)

\* Math.min(...values) and Math.max(...values)
RECURSIVE MathMin(_)
MathMin(values) ==
    IF values = <<>> THEN Infinity
    ELSE LET m == MathMin(Tail(values))
             v == Head(values)
         IN  IF v = NaN \/ m = NaN THEN NaN ELSE IF Below(v, m) THEN v ELSE m
RECURSIVE MathMax(_)
MathMax(values) ==
    IF values = <<>> THEN NegInfinity
    ELSE LET m == MathMax(Tail(values))
             v == Head(values)
         IN  IF v = NaN \/ m = NaN THEN NaN ELSE IF Below(m, v) THEN v ELSE m

\* the step of makeBins, (max - min) / (bins || 1) || 1: a number of JavaScript
\* for the steps that are not finite, else the fraction num / den
StepOf(min, max, bins) ==
    LET d == Minus(max, min)
    IN  IF d = NaN THEN [k |-> "frac", num |-> 1, den |-> 1]
        ELSE IF ~IsNum(d) THEN d
        ELSE IF d.n = 0 THEN [k |-> "frac", num |-> 1, den |-> 1]
        ELSE [k |-> "frac", num |-> d.n, den |-> IF bins = 0 THEN 1 ELSE bins]

\* Math.floor((v - min) / step)
FloorOfQuotient(v, min, step) ==
    LET d == Minus(v, min)
    IN  IF d = NaN THEN NaN
        ELSE IF step.k = "frac"
        THEN IF IsNum(d) THEN Num((d.n * step.den) \div step.num)
             ELSE IF step.num > 0 THEN d ELSE Minus(Num(0), d)
        ELSE IF IsNum(d) THEN Num(0)
        ELSE NaN

\* the indexOf of makeBins: Math.min(bins - 1, Math.max(0, floor)), a place of
\* 0 .. bins - 1 or NaN
indexOf(v, min, step, bins) ==
    LET f == FloorOfQuotient(v, min, step)
        lo == IF f = NaN THEN NaN ELSE IF Below(f, Num(0)) THEN Num(0) ELSE f
    IN  IF lo = NaN THEN NaN
        ELSE IF Below(Num(bins - 1), lo) THEN Num(bins - 1) ELSE lo

\* AnalyticsComponent.makeBins(values, bins): min and step, which indexOf uses
makeBins(values, bins) ==
    LET min == MathMin(values)
        max == MathMax(values)
    IN  [min |-> min, step |-> StepOf(min, max, bins)]

\* AnalyticsComponent.makeHistogram(values, bins): the counts of the bins;
\* counts[NaN]++ writes the property NaN of the array and no bin
makeHistogram(values, bins) ==
    LET b == makeBins(values, bins)
        at == [i \in 1..Len(values) |-> indexOf(values[i], b.min, b.step, bins)]
    IN  [i \in 1..bins |-> Cardinality({j \in 1..Len(values) : at[j] = Num(i - 1)})]

HistogramBins == 12
\* the values of a histogram: scores, and what Number() gives for the others
HistogramValues == {Num(0), Num(1), Num(5), NaN, Infinity, NegInfinity}

InitHistogram ==
    /\ Unconnected /\ EmptyStore
    /\ arg \in ListsOf(HistogramValues, MaxHist)
    /\ fn = "none"
    /\ ret = Undef

\* AnalyticsComponent.buildHistogram and buildOutcomeHistogram, vals given
BuildHistogram ==
    /\ fn = "none"
    /\ fn' = "buildHistogram"
    /\ ret' = IF arg = <<>> THEN <<>> ELSE makeHistogram(arg, HistogramBins) \o <<>>
    /\ UNCHANGED <<arg, ws, pages, conn, store, nmsgs, last, uncaught>>

NextHistogram == BuildHistogram

\* the histograms of the scores and of the outcomes
SpecHistogram == InitHistogram /\ [][NextHistogram]_vars

(* ----------------------- the statistics of a bucket -------------------- *)
minPointsPerBucket == 3
\* a number that is num / den
Frac(num, den) == [k |-> "frac", num |-> num, den |-> den]

\* AnalyticsComponent.quantile(sortedAsc, num / den), as a fraction over den
quantileBy(sortedAsc, num, den) ==
    LET n == Len(sortedAsc)
        base == ((n - 1) * num) \div den
        rest == ((n - 1) * num) % den
        a == At(sortedAsc, base)
        b == IF base + 1 < n THEN At(sortedAsc, base + 1) ELSE a
    IN  IF n = 0 THEN Frac(0, den) ELSE Frac(den * a + (b - a) * rest, den)

\* the PnL of the samples of a bucket
PnlOf(bucket) == [i \in 1..Len(bucket) |-> bucket[i].pnl] \o <<>>

\* buildScatter: the point of the median line of a bucket, its y
medianOfBucket(all) ==
    IF Len(all) < minPointsPerBucket THEN Null
    ELSE quantileBy(SortAsc(PnlOf(all)), 2, 4)

\* buildScatter: the point of the Q1-Q3 band of a bucket, its y
iqrOfBucket(all) ==
    IF Len(all) < minPointsPerBucket THEN <<Num(0), Num(0)>>
    ELSE <<quantileBy(SortAsc(PnlOf(all)), 1, 4), quantileBy(SortAsc(PnlOf(all)), 3, 4)>>

\* buildDriversHeatmap: the median of a bin, -Infinity for a bin of less than
\* minPointsPerBucket samples
medianOfBin(bin) ==
    IF Len(bin) >= minPointsPerBucket THEN quantileBy(SortAsc(PnlOf(bin)), 1, 2)
    ELSE NegInfinity

\* buildDriversHeatmap: the y of the cell of a bin
cellOfBin(bin) ==
    IF medianOfBin(bin) = NegInfinity THEN Num(0) ELSE medianOfBin(bin)

\* buildWinRateByScore: the rate of a bucket, n ? (win / n) * 100 : 0
winRateOfBucket(bucket) ==
    LET n == Len(bucket)
        win == Cardinality({i \in 1..n : bucket[i].wasProfit})
    IN  IF n # 0 THEN Frac(win * 100, n) ELSE Num(0)

\* the samples of a bucket: the PnL of a closed trade and whether it was a win
BucketSamples == [pnl : {-2, 0, 3}, wasProfit : BOOLEAN]

InitBucket ==
    /\ Unconnected /\ EmptyStore
    /\ arg \in ListsOf(BucketSamples, MaxBucket)
    /\ fn = "none"
    /\ ret = Undef

\* the statistic called name of the bucket
BucketStatistic(name, value) ==
    /\ fn = "none"
    /\ fn' = name
    /\ ret' = value
    /\ UNCHANGED <<arg, ws, pages, conn, store, nmsgs, last, uncaught>>

MedianLine == BucketStatistic("median", medianOfBucket(arg))
IqrBand == BucketStatistic("iqr", iqrOfBucket(arg))
DriversCell == BucketStatistic("cell", cellOfBin(arg))
WinRateByScore == BucketStatistic("winRate", winRateOfBucket(arg))

NextBucket == MedianLine \/ IqrBand \/ DriversCell \/ WinRateByScore

\* the statistics of one bucket of a chart
SpecBucket == InitBucket /\ [][NextBucket]_vars

(* ------------------------- the charts of the metrics ------------------- *)
\* AnalyticsComponent.metricDefs: the key of the chart, the object and the
\* field its accessor reads, and whether it reads the object with ?.
MetricDefinition(key, object, field, optional) ==
    [key |-> key, object |-> object, field |-> field, optional |-> optional]
metricDefs ==
    << MetricDefinition("final", "scores", "final", TRUE),
       MetricDefinition("quality", "scores", "quality", TRUE),
       MetricDefinition("statistics", "scores", "statistics", TRUE),
       MetricDefinition("entry", "scores", "entry", TRUE),
       MetricDefinition("liq", "fundamentals", "liquidityUsd", TRUE),
       MetricDefinition("vol5m", "fundamentals", "volume5mUsd", TRUE),
       MetricDefinition("vol1h", "fundamentals", "volume1hUsd", TRUE),
       MetricDefinition("vol6h", "fundamentals", "volume6hUsd", TRUE),
       MetricDefinition("vol24h", "fundamentals", "volume24hUsd", TRUE),
       MetricDefinition("p5m", "fundamentals", "pct5m", TRUE),
       MetricDefinition("p1h", "fundamentals", "pct1h", TRUE),
       MetricDefinition("p6h", "fundamentals", "pct6h", TRUE),
       MetricDefinition("p24h", "fundamentals", "pct24h", TRUE),
       MetricDefinition("age", "fundamentals", "tokenAgeHours", TRUE),
       MetricDefinition("tx5m", "fundamentals", "tx5m", FALSE),
       MetricDefinition("tx1h", "fundamentals", "tx1h", FALSE),
       MetricDefinition("tx6h", "fundamentals", "tx6h", FALSE),
       MetricDefinition("tx24h", "fundamentals", "tx24h", FALSE) >>
ChartKey == {metricDefs[i].key : i \in 1..Len(metricDefs)}
\* this.metricDefs.find(m => m.key === kind)
DefOf(kind) == metricDefs[CHOOSE i \in 1..Len(metricDefs) : metricDefs[i].key = kind]

\* the TypeError of a property read on undefined
TypeError == [k |-> "thrown"]
\* def.accessor(r): r.scores?.final, r.fundamentals?.liquidityUsd, r.fundamentals.tx5m
accessor(def, r) ==
    IF def.optional THEN OptProp(Prop(r, def.object), def.field)
    ELSE IF Nullish(Prop(r, def.object)) THEN TypeError
    ELSE Prop(Prop(r, def.object), def.field)

\* AnalyticsComponent.coerceNumber(value)
coerceNumber(value) ==
    IF value.k \in {"num", "nan", "inf", "-inf"}
    THEN IF IsNum(value) THEN value ELSE Null
    ELSE IF value.k = "str"
    THEN IF IsNum(NumberOf(value)) THEN NumberOf(value) ELSE Null
    ELSE Null

\* AnalyticsComponent.getPnL(row) under the axis mode
getPnL(row, mode) ==
    coerceNumber(OptProp(Prop(row, "outcome"), IF mode = "pct" THEN "pnlPct" ELSE "pnlUsd"))

\* whether reading the metric of one of the rows throws
ThrowsOn(def, rows) == \E i \in 1..Len(rows) : accessor(def, rows[i]) = TypeError

\* buildScatter: the rows that give a point of the chart of def
ScatterRows(def, rows, mode) ==
    {i \in 1..Len(rows) :
        /\ coerceNumber(accessor(def, rows[i])) # Null
        /\ getPnL(rows[i], mode) # Null}

\* buildScatter over the rows: the rows of the chart, or the exception
buildScatter(def, rows, mode) ==
    IF ThrowsOn(def, rows) THEN [threw |-> TRUE, rows |-> {}]
    ELSE [threw |-> FALSE, rows |-> ScatterRows(def, rows, mode)]

\* buildDriversHeatmap: the rows with an outcome, which alone are read
Closed(rows) == SelectSeq(rows, LAMBDA r : OptProp(Prop(r, "outcome"), "hasOutcome") = [k |-> "bool", b |-> TRUE])
\* the places in rows of the rows with an outcome
ClosedPlaces(rows) ==
    {i \in 1..Len(rows) : OptProp(Prop(rows[i], "outcome"), "hasOutcome") = [k |-> "bool", b |-> TRUE]}

\* buildDriversHeatmap over the rows: for each metric the rows of its series,
\* or the exception
buildDriversHeatmap(rows, mode) ==
    IF \E d \in 1..Len(metricDefs) : ThrowsOn(metricDefs[d], Closed(rows))
    THEN [threw |-> TRUE, rows |-> [key \in ChartKey |-> {}]]
    ELSE [threw |-> FALSE,
          rows |-> [key \in ChartKey |->
                       {i \in ClosedPlaces(rows) :
                           /\ coerceNumber(accessor(DefOf(key), rows[i])) # Null
                           /\ getPnL(rows[i], mode) # Null}]]

\* the objects of a row, every field of an object holding the value v
ScoresOf(v) == [k |-> "obj", final |-> v, quality |-> v, statistics |-> v, entry |-> v]
FundamentalsOf(v) ==
    [k |-> "obj", liquidityUsd |-> v, volume5mUsd |-> v, volume1hUsd |-> v,
     volume6hUsd |-> v, volume24hUsd |-> v, pct5m |-> v, pct1h |-> v, pct6h |-> v,
     pct24h |-> v, tokenAgeHours |-> v, tx5m |-> v, tx1h |-> v, tx6h |-> v, tx24h |-> v]
OutcomeOf(pnl) ==
    [k |-> "obj", hasOutcome |-> [k |-> "bool", b |-> TRUE], pnlPct |-> pnl, pnlUsd |-> pnl]
\* the rows of the analytics: with or without scores, fundamentals, outcome;
\* a metric a number, missing, or a text that is no number
ChartRow ==
    [k : {"obj"},
     scores : {Undef, ScoresOf(Num(2))},
     fundamentals : {Undef, FundamentalsOf(Undef), FundamentalsOf(Num(2)), FundamentalsOf(Str("abc"))},
     outcome : {Undef, OutcomeOf(Num(5))}]

InitCharts ==
    /\ Unconnected /\ EmptyStore
    /\ arg \in [rows : ListsOf(ChartRow, MaxChartRows), mode : {"pct", "usd"}]
    /\ fn = "none"
    /\ ret = Undef

\* AnalyticsComponent.rebuildOne(kind)
RebuildOne(kind) ==
    /\ fn = "none"
    /\ fn' = kind
    /\ ret' = buildScatter(DefOf(kind), arg.rows, arg.mode)
    /\ UNCHANGED <<arg, ws, pages, conn, store, nmsgs, last, uncaught>>

\* AnalyticsComponent.rebuildDriversHeatmap()
RebuildDriversHeatmap ==
    /\ fn = "none"
    /\ fn' = "drivers"
    /\ ret' = buildDriversHeatmap(arg.rows, arg.mode)
    /\ UNCHANGED <<arg, ws, pages, conn, store, nmsgs, last, uncaught>>

NextCharts == (\E kind \in ChartKey : RebuildOne(kind)) \/ RebuildDriversHeatmap

\* the charts and the drivers heatmap built from a collection
SpecCharts == InitCharts /\ [][NextCharts]_vars

(* --------------------- the rebuilds of the analytics page -------------- *)
\* CHART_KEYS: the keys rebuildVisible walks through (p6h is not among them)
CHART_KEYS ==
    {"final", "quality", "statistics", "entry", "liq",
     "vol5m", "vol1h", "vol6h", "vol24h", "p5m", "p1h", "p24h",
     "age", "tx5m", "tx1h", "tx6h", "tx24h"}
\* MetricDefinition.usesLogScaleForDisplay
usesLogScaleForDisplay(key) ==
    key \in {"liq", "vol5m", "vol1h", "vol6h", "vol24h", "age", "tx5m", "tx1h", "tx6h", "tx24h"}

\* what buildScatter reads when it builds the chart of kind on page c
BuiltFrom(c, kind) ==
    [k |-> "built", rows |-> c.rows, pnlAxisMode |-> c.pnlAxisMode,
     showTrend |-> c.showTrend, showIqrBand |-> c.showIqrBand,
     useLogX |-> usesLogScaleForDisplay(kind) /\ c.useLogX]

\* AnalyticsComponent.rebuildOne(kind) on page c
rebuildOne(c, kind) == [c EXCEPT !.series[kind] = BuiltFrom(c, kind)]

\* AnalyticsComponent.rebuildVisible() on page c
rebuildVisible(c) ==
    [c EXCEPT !.series = [k \in ViewedKeys |->
        IF k \in CHART_KEYS /\ c.visible[k] THEN BuiltFrom(c, k) ELSE c.series[k]]]

\* AnalyticsComponent.rebuildDriversHeatmap() on page c
rebuildDriversHeatmap(c) ==
    [c EXCEPT !.drivers = [k |-> "built", rows |-> c.rows, pnlAxisMode |-> c.pnlAxisMode]]

\* an action of the analytics page that leaves it as c
PageStep(c) ==
    /\ analyticsPage' = c
    /\ UNCHANGED <<paperControl, ws, call, conn, store, nmsgs, last, uncaught>>

\* ngOnInit: loadAllFromHttp() sends the requests
NgOnInit ==
    /\ analyticsPage.request = "none"
    /\ PageStep([analyticsPage EXCEPT !.request = "pending"])

\* loadAllFromHttp, next: the rows are set and the two heatmaps rebuilt
LoadNext ==
    /\ analyticsPage.request = "pending"
    /\ PageStep(rebuildDriversHeatmap(
           [analyticsPage EXCEPT !.request = "done", !.rows = @ + 1]))

\* loadAllFromHttp, error: the failure is logged
LoadError ==
    /\ analyticsPage.request = "pending"
    /\ PageStep([analyticsPage EXCEPT !.request = "done"])

onAxisModeChange(mode) ==
    PageStep(rebuildDriversHeatmap(rebuildVisible([analyticsPage EXCEPT !.pnlAxisMode = mode])))
onToggleTrend(v) == PageStep(rebuildVisible([analyticsPage EXCEPT !.showTrend = v]))
onToggleIqr(v) == PageStep(rebuildVisible([analyticsPage EXCEPT !.showIqrBand = v]))
onToggleLogX(v) == PageStep(rebuildVisible([analyticsPage EXCEPT !.useLogX = v]))

\* onViewport(kind, visible)
onViewport(kind, visible) ==
    LET c == [analyticsPage EXCEPT !.visible[kind] = visible]
    IN  PageStep(IF visible THEN rebuildOne(c, kind) ELSE c)

OnAxisModeChange == \E mode \in {"pct", "usd"} : onAxisModeChange(mode)
OnToggleTrend == \E v \in BOOLEAN : onToggleTrend(v)
OnToggleIqr == \E v \in BOOLEAN : onToggleIqr(v)
OnToggleLogX == \E v \in BOOLEAN : onToggleLogX(v)
OnViewport == \E kind \in ViewedKeys, visible \in BOOLEAN : onViewport(kind, visible)

NextPage ==
    \/ NgOnInit
    \/ LoadNext
    \/ LoadError
    \/ OnAxisModeChange
    \/ OnToggleTrend
    \/ OnToggleIqr
    \/ OnToggleLogX
    \/ OnViewport

\* the analytics page: its load, its controls and its charts
SpecPage == Init /\ [][NextPage]_vars

(* ------------------------ the flags of the heatmaps -------------------- *)
\* a >= b for two fractions
FracGeq(a, b) == a.num * b.den >= b.num * a.den

\* Math.max(...medians.filter(v => v !== -Infinity)): -Infinity when none is left
RECURSIVE MaxMedian(_)
MaxMedian(medians) ==
    IF medians = <<>> THEN NegInfinity
    ELSE LET m == MaxMedian(Tail(medians))
             v == Head(medians)
         IN  IF v = NegInfinity THEN m
             ELSE IF m = NegInfinity THEN v
             ELSE IF FracGeq(v, m) THEN v ELSE m

\* v >= maxMedian - Math.abs(maxMedian) * 0.10, for a median v
AtLeastThreshold(v, maxMedian) ==
    /\ maxMedian # NegInfinity
    /\ 10 * v.num * maxMedian.den >= (10 * maxMedian.num - Abs(maxMedian.num)) * v.den

\* buildDriversHeatmap: flagMask for the bins of a metric
flagMask(bins) ==
    LET medians == [i \in 1..Len(bins) |-> medianOfBin(bins[i])]
        maxMedian == MaxMedian(medians \o <<>>)
    IN  [i \in 1..Len(bins) |->
            /\ medians[i] # NegInfinity
            /\ AtLeastThreshold(medians[i], maxMedian)
            /\ Len(bins[i]) >= minPointsPerBucket]

\* buildStaledHeatmap: the rate of a cell, n > 0 ? (staledCounts / n) * 100 : 0
RateOf(cell) ==
    IF cell.n > 0 THEN Frac(cell.staled * 100, cell.n) ELSE Frac(0, 1)

\* Math.max(0, ...rates)
RECURSIVE MaxRate(_)
MaxRate(cells) ==
    IF cells = <<>> THEN Frac(0, 1)
    ELSE LET m == MaxRate(Tail(cells))
             v == RateOf(Head(cells))
         IN  IF FracGeq(v, m) THEN v ELSE m

\* buildStaledHeatmap: isFlagged for the cells of a metric, rate >= maxRate * 0.9
\* and n >= minPointsPerBucket
isFlagged(cells) ==
    LET maxRate == MaxRate(cells)
    IN  [i \in 1..Len(cells) |->
            /\ 10 * RateOf(cells[i]).num * maxRate.den >= 9 * maxRate.num * RateOf(cells[i]).den
            /\ cells[i].n >= minPointsPerBucket]

\* a bin of n closed trades of PnL v
BinOf(n, v) == [i \in 1..n |-> [pnl |-> v, wasProfit |-> v > 0]] \o <<>>
\* the bins of the drivers heatmap and the cells of the staled heatmap
DriverBins == {BinOf(n, v) : n \in {0, 2, 3}, v \in {-11, -10, 0, 9, 10}}
StaledCells == {c \in [n : {0, 1, 3, 4}, staled : 0..4] : c.staled <= c.n}

InitFlags ==
    /\ Unconnected /\ EmptyStore
    /\ arg \in [heat : {"drivers"}, cells : ListsOf(DriverBins, MaxCells)]
              \cup [heat : {"staled"}, cells : ListsOf(StaledCells, MaxCells)]
    /\ fn = "none"
    /\ ret = Undef

\* the flags of a row of the drivers heatmap
FlagDrivers ==
    /\ fn = "none"
    /\ arg.heat = "drivers"
    /\ fn' = "flagMask"
    /\ ret' = flagMask(arg.cells) \o <<>>
    /\ UNCHANGED <<arg, ws, pages, conn, store, nmsgs, last, uncaught>>

\* the flags of a row of the staled heatmap
FlagStaled ==
    /\ fn = "none"
    /\ arg.heat = "staled"
    /\ fn' = "isFlagged"
    /\ ret' = isFlagged(arg.cells) \o <<>>
    /\ UNCHANGED <<arg, ws, pages, conn, store, nmsgs, last, uncaught>>

NextFlags == FlagDrivers \/ FlagStaled

\* the flagged cells of the two heatmaps
SpecFlags == InitFlags /\ [][NextFlags]_vars

(* --------------------------- the paper reset --------------------------- *)
\* an action of the paper mode control that leaves it as c
ControlStep(c) ==
    /\ paperControl' = c
    /\ UNCHANGED <<analyticsPage, ws, call, conn, store, nmsgs, last, uncaught>>

\* PaperModeControlComponent.resetPaperPortfolio(): isResetting is set and
\* the request sent; one reset at a time
ResetPaperPortfolio ==
    /\ ~paperControl.isResetting
    /\ paperControl.request = "none"
    /\ ControlStep([paperControl EXCEPT !.isResetting = TRUE, !.request = "pending"])

\* the next handler of the reset: socket?.send(...), then isResetting.set(false).
\* send throws on a CONNECTING socket, and the handler ends there; on a
\* CLOSING or CLOSED socket it drops the message
ResetNext ==
    /\ paperControl.request = "pending"
    /\ ControlStep(
           IF socket = 0
           THEN [paperControl EXCEPT !.request = "none", !.response = "next",
                                     !.isResetting = FALSE]
           ELSE IF readyState[socket] = "CONNECTING"
           THEN [paperControl EXCEPT !.request = "none", !.response = "next",
                                     !.threw = TRUE]
           ELSE [paperControl EXCEPT !.request = "none", !.response = "next",
                                     !.isResetting = FALSE,
                                     !.sent = IF readyState[socket] = "OPEN"
                                              THEN @ \cup {socket} ELSE @])

\* the error handler of the reset
ResetError ==
    /\ paperControl.request = "pending"
    /\ ControlStep([paperControl EXCEPT !.request = "none", !.response = "error",
                                        !.isResetting = FALSE])

\* the service and the paper mode control
NextReset ==
    \/ PageConnect
    \/ ReconnectTimer
    \/ \E s \in Sockets : SocketOpen(s)
    \/ \E s \in Sockets : SocketClosing(s)
    \/ \E s \in Sockets : SocketClose(s)
    \/ \E s \in Sockets : SocketError(s)
    \/ ResetPaperPortfolio
    \/ ResetNext
    \/ ResetError

\* the paper reset when every HTTP request gets its response
SpecReset == Init /\ [][NextReset]_vars /\ WF_vars(ResetNext \/ ResetError)

(* ------------------------------- claims -------------------------------- *)
\* a step that handles the frame named name
Handled(name) == nmsgs' = nmsgs + 1 /\ last' = name
PayloadOf(name) == Frames[name].value.payload
Range(seq) == {seq[i] : i \in 1..Len(seq)}
Min(a, b) == IF a < b THEN a ELSE b
\* (r.created_at || '')
CreatedKey(r) == IF r.k = "obj" THEN r.created_at ELSE 0
\* the frames whose analytics payload is one record
RowFrames == {"rowKnown", "rowNew", "rowOld", "rowNoId"}
\* the analytics frames that carry an array of records, with their records
ArrayFrames == {"analytics", "analyticsBig"}
RecordsOf == [analytics |-> Range(SmallAnalytics), analyticsBig |-> Range(BigAnalytics)]
\* res is rows (the records given, without duplicates) ordered by
\* evaluatedAt descending and cut to the first cap entries: res is ordered,
\* holds distinct records of rows, and holds every record of rows that is
\* more recent than its last entry
SortedCutOf(res, rows, given, cap) ==
    /\ Len(res) = Min(Len(rows), cap)
    /\ \A i \in 1..(Len(res) - 1) : EvalKey(res[i]) >= EvalKey(res[i + 1])
    /\ Range(res) \subseteq given
    /\ Cardinality(Range(res)) = Len(res)
    /\ \/ Len(res) = 0
       \/ LET least == EvalKey(res[Len(res)])
          IN  Cardinality({r \in given : EvalKey(r) > least})
                = Cardinality({i \in 1..Len(res) : EvalKey(res[i]) > least})

\* C1: after any sequence of init, trades and trade messages the trade
\* collection holds at most 200 entries.
C1_TradesAtMostCap == IsArray(trades) => Len(trades.a) <= TradeCap

\* C2: after any sequence of init and analytics messages the analytics
\* collection holds at most 5000 entries.
C2_AnalyticsAtMostCap == Len(analytics) <= AnalyticsCap
\* a new record was prepended to a collection that was already at the cap
C2_Witness ==
    /\ last = "rowNew"
    /\ Len(analytics) = AnalyticsCap
    /\ analytics[1] = PayloadOf("rowNew")

\* C3: a single analytics record with the id of a stored record replaces that
\* record at its index, the length and the other records unchanged; with an
\* id that is not stored it is put at index 0, the previous records follow in
\* their order and the length grows by one unless the cap is reached.
C3_Upsert ==
    [][\A name \in RowFrames : Handled(name) =>
        LET row == PayloadOf(name)
            hits == {i \in 1..Len(analytics) : IdOf(analytics[i]) = IdOf(row)}
        IN  IF hits # {}
            THEN /\ Len(analytics') = Len(analytics)
                 /\ \A i \in 1..Len(analytics) :
                        analytics'[i] = IF i \in hits THEN row ELSE analytics[i]
            ELSE /\ Len(analytics') = Min(Len(analytics) + 1, AnalyticsCap)
                 /\ analytics'[1] = row
                 /\ \A i \in 2..Len(analytics') : analytics'[i] = analytics[i - 1]
      ]_vars
\* a stored record of a full collection was replaced below index 0
C3_Witness ==
    /\ last = "rowKnown"
    /\ Len(analytics) = AnalyticsCap
    /\ \E i \in 2..Len(analytics) : analytics[i] = PayloadOf("rowKnown")

\* C4: an analytics payload that is an array (of records) replaces the whole
\* collection by its records sorted by evaluatedAt descending and cut to the
\* first 5000; a single record is an upsert and never a replacement: every
\* stored record with another id stays, at its place or one place further,
\* but the one the cap drops.
C4_ArrayReplaces ==
    [][/\ \A name \in ArrayFrames : Handled(name) =>
              SortedCutOf(analytics', PayloadOf(name).a, RecordsOf[name], AnalyticsCap)
       /\ \A name \in RowFrames : Handled(name) =>
              /\ Len(analytics') >= Len(analytics)
              /\ \A j \in 1..Len(analytics) :
                    \/ IdOf(analytics[j]) = IdOf(PayloadOf(name))
                    \/ j = Len(analytics) /\ Len(analytics) = AnalyticsCap
                    \/ analytics'[j] = analytics[j]
                    \/ analytics'[j + 1] = analytics[j]
      ]_vars
\* a list longer than the cap replaced a collection that held something else
C4_Witness ==
    /\ last = "analyticsBig"
    /\ nmsgs = 2
    /\ Len(analytics) = AnalyticsCap
    /\ \A i \in 1..Len(analytics) : analytics[i] \in RecordsOf["analyticsBig"]

\* C5: whenever the cap makes the trade or analytics collection drop an
\* entry, every dropped entry is at least as old (created_at, evaluatedAt) as
\* every entry that is kept, and the entry just received is kept.
C5_EvictsOldest ==
    [][/\ \A name \in {"tradeNew", "tradeOld"} :
              Handled(name) /\ IsArray(trades) /\ IsArray(trades') =>
                  LET kept == Range(trades'.a)
                  IN  /\ PayloadOf(name) \in kept
                      /\ \A d \in Range(trades.a) :
                             d \in kept \/ \A e \in kept : CreatedKey(d) <= CreatedKey(e)
       /\ \A name \in RowFrames : Handled(name) =>
              LET kept == Range(analytics')
              IN  /\ PayloadOf(name) \in kept
                  /\ \A d \in Range(analytics) :
                         \/ d \in kept
                         \/ IdOf(d) = IdOf(PayloadOf(name))
                         \/ \A e \in kept : EvalKey(d) <= EvalKey(e)
      ]_vars

\* C6: a frame that is not JSON and a message of type pong, error or of an
\* unrecognized type leave portfolio, positions, trades, analytics and the
\* connection status as they were.
C6_InertFrames ==
    [][\A name \in {"notjson", "pong", "error", "unknown"} : Handled(name) =>
           UNCHANGED <<portfolio, positions, trades, analytics, status>>
      ]_vars
\* pong was handled by a store that holds data
C6_Witness ==
    /\ last = "pong"
    /\ nmsgs = 2
    /\ portfolio # Null
    /\ Len(analytics) > 0

\* the frames of a known type whose payload has the wrong shape
MalformedFrames ==
    {"positionsNotArray", "tradesNotArray", "initNullEntry", "initNotArrays",
     "tradeNoPayload", "rowNoId", "analyticsNullEntry"}
\* C7: a message of a known type whose payload has the wrong shape lets no
\* exception escape the handler and leaves the four slices as they were.
C7_MalformedDropped ==
    [][\A name \in MalformedFrames : Handled(name) =>
           ~uncaught' /\ UNCHANGED <<portfolio, positions, trades, analytics>>
      ]_vars

\* the frames of type init, and their analytics lists where they have one
InitFrames == {"init", "initBig", "initNoPayload", "initNullEntry", "initNotArrays"}
InitRecordsOf == [init |-> Range(SmallAnalytics), initBig |-> Range(BigAnalytics)]
\* the value of field f of an init payload, d where the payload omits it
FieldOr(payload, f, d) ==
    IF Nullish(payload) \/ Nullish(Prop(payload, f)) THEN d ELSE Prop(payload, f)
\* portfolio, positions and trades after a frame that replaces them
ReplacedSlices(name) ==
    LET type == Frames[name].value.type
        payload == PayloadOf(name)
    IN  /\ type = "init" =>
              /\ portfolio' = FieldOr(payload, "portfolio", Null)
              /\ positions' = FieldOr(payload, "positions", Arr(<<>>))
              /\ trades' = FieldOr(payload, "trades", Arr(<<>>))
        /\ type = "portfolio" =>
              portfolio' = (IF Nullish(payload) THEN Null ELSE payload)
        /\ type = "positions" =>
              positions' = (IF Nullish(payload) THEN Arr(<<>>) ELSE payload)
        /\ type = "trades" =>
              trades' = (IF Nullish(payload) THEN Arr(<<>>) ELSE payload)
\* the frames that carry a message
MessageFrames == FrameNames \ {"notjson", "jsonnull"}

\* C8 as stated: after init all four slices equal the fields of the payload
\* (null or empty where it omits them), and after portfolio, positions or
\* trades the slice equals the payload of that message.
C8_SlicesEqualPayload ==
    [][\A name \in MessageFrames : Handled(name) =>
           /\ ReplacedSlices(name)
           /\ name \in InitFrames \ {"initNotArrays"} =>
                  analytics' = FieldOr(PayloadOf(name), "analytics", Arr(<<>>)).a
      ]_vars
\* C8 as amended: the same for portfolio, positions and trades; analytics
\* after init is the analytics list of the payload ordered by evaluatedAt
\* descending and cut to the first 5000, empty when the payload has no such
\* list, and left as it was when the list holds a null entry beside another.
C8_Replaces ==
    [][\A name \in MessageFrames : Handled(name) =>
           /\ ReplacedSlices(name)
           /\ name \in {"init", "initBig"} =>
                  SortedCutOf(analytics', PayloadOf(name).analytics.a,
                              InitRecordsOf[name], AnalyticsCap)
           /\ name \in {"initNoPayload", "initNotArrays"} => analytics' = <<>>
           /\ name = "initNullEntry" => analytics' = analytics
      ]_vars
\* init replaced a store that held other data
C8_Witness ==
    /\ last = "init"
    /\ nmsgs = 2
    /\ portfolio = PortfolioOf(100)
    /\ trades = Arr(SmallTrades)
    /\ analytics = <<AnalyticsOf(2, MaxAt, 0), AnalyticsOf(3, 3, 0), AnalyticsOf(1, 2, 0)>>

\* C9: while a connection (a socket the service created) is connecting or
\* open, a call of connect() from page code or from a reconnect timer
\* creates no socket and changes neither the status nor a store slice.
C9_ConnectNoOp ==
    [][(\E s \in Sockets : Live(s)) /\ (PageConnect \/ ReconnectTimer) =>
           UNCHANGED <<status, socket, readyState, urlOf, nsock,
                       portfolio, positions, trades, analytics>>
      ]_vars

\* C10 as stated: every change of the status is closed to connecting,
\* connecting to open or open to closed.
C10_SpecifiedEdges ==
    [][status' # status =>
           <<status, status'>> \in {<<"closed", "connecting">>,
                                    <<"connecting", "open">>,
                                    <<"open", "closed">>}
      ]_vars
\* C10 as amended: the status becomes connecting only when connect() creates
\* and references a socket, open only when a socket goes from CONNECTING to
\* OPEN, closed only when a socket becomes CLOSED.
C10_StatusFollowsEvents ==
    [][status' # status =>
           \/ /\ status' = "connecting"
              /\ nsock' = nsock + 1
              /\ socket' = nsock'
              /\ readyState'[nsock'] = "CONNECTING"
           \/ /\ status' = "open"
              /\ \E s \in Sockets :
                     readyState[s] = "CONNECTING" /\ readyState'[s] = "OPEN"
           \/ /\ status' = "closed"
              /\ \E s \in Sockets :
                     readyState[s] # "CLOSED" /\ readyState'[s] = "CLOSED"
      ]_vars
\* the status went from closed to open: the open event of a socket that was
\* created before the close event of its predecessor arrived
C10_Witness ==
    /\ status = "open"
    /\ socket = 0
    /\ \E s \in Sockets : readyState[s] = "OPEN"


\* a step in which the socket s becomes CLOSED: its close event
Closes(s) == readyState[s] # "CLOSED" /\ readyState'[s] = "CLOSED"

\* C11: every close event sets the status to closed and arms one timer of
\* 3000 ms that calls connect with the URL of the closed socket; when the
\* timers fire, a connection attempt is started after every close, whatever
\* the number of attempts made before.
C11_CloseReconnects ==
    /\ [][/\ \A s \in Sockets : Closes(s) =>
                /\ status' = "closed"
                /\ timers' = Append(timers, [url |-> urlOf[s],
                                             delay |-> ReconnectDelayMs])
          /\ ReconnectTimer /\ nsock' # nsock =>
                /\ readyState'[nsock'] = "CONNECTING"
                /\ urlOf'[nsock'] = Head(timers).url
         ]_vars
    /\ \A n \in 0..(MaxSockets - 1) :
          (socket = 0 /\ timers # <<>> /\ nsock = n) ~> (nsock > n)
\* a third attempt is under way after the close of the two before it, and
\* every timer has fired
C11_Witness ==
    /\ nsock = 3
    /\ readyState[1] = "CLOSED" /\ readyState[2] = "CLOSED"
    /\ readyState[3] = "CONNECTING"
    /\ urlOf[3] = urlOf[1]
    /\ timers = <<>>

\* C12: a socket error event raises nothing and leaves the store alone, sets
\* the status to closed and arms the reconnect timer; when the timers fire, a
\* connection attempt follows.
C12_ErrorReconnects ==
    /\ [][\A s \in Sockets : s \in errored' \ errored =>
              /\ status' = "closed"
              /\ uncaught' = uncaught
              /\ UNCHANGED store
              /\ timers' = Append(timers, [url |-> urlOf[s],
                                           delay |-> ReconnectDelayMs])
         ]_vars
    /\ \A s \in 1..(MaxSockets - 1) :
          (s \in errored /\ nsock = s) ~> (readyState[s + 1] # "NONE")
\* the first attempt failed before it was open, the timer fired and a second
\* attempt is under way
C12_Witness ==
    /\ errored = {1}
    /\ status = "connecting"
    /\ readyState[2] = "CONNECTING"
    /\ socket = 2
    /\ timers = <<>>

\* a step in which WsService handles a positions message that carries a list
WsPositionsStep ==
    /\ nmsgs' = nmsgs + 1
    /\ wsLast'.type = "positions"
    /\ IsArray(wsLast'.payload)
\* up, down or flat: the new price against an earlier one
DirOf(newN, oldN) ==
    IF newN > oldN THEN "up" ELSE IF newN < oldN THEN "down" ELSE "flat"
\* the directions the claim allows for the incoming position p when the
\* positions before are stored: against the last price of a stored position
\* with its address, flat when its price or every such price is unknown
DirsAgainstStored(p, before) ==
    LET known == {j \in 1..Len(before) :
                     before[j].address = p.address /\ IsNum(before[j].last_price)}
    IN  IF ~IsNum(p.last_price) \/ known = {} THEN {"flat"}
        ELSE {DirOf(p.last_price.n, before[j].last_price.n) : j \in known}

\* C13: on a positions message the direction of each incoming position is
\* the comparison of its lastPrice with the lastPrice of the position stored
\* under its address (by init or by an earlier positions message), flat when
\* one of the two is unknown, whatever else the incoming list holds.
C13_DirectionAgainstStored ==
    [][WsPositionsStep =>
           /\ Len(wsStore'.positions.a) = Len(wsLast'.payload.a)
           /\ \A i \in 1..Len(wsLast'.payload.a) :
                  wsStore'.positions.a[i]._lastDir
                      \in DirsAgainstStored(wsLast'.payload.a[i], wsStore.positions.a)
      ]_vars

\* the changePct the claim gives the position pos
ChangePctOk(pos) ==
    LET lastV == Prop(pos, "last_price")
        entryV == Prop(pos, "entry")
        changePct == Prop(pos, "_changePct")
    IN  IF IsNum(lastV) /\ IsNum(entryV) /\ entryV.n > 0
        THEN changePct = Num(((lastV.n - entryV.n) * 100) \div Abs(entryV.n))
        ELSE Nullish(changePct)

\* C14: after a positions message every stored position has changePct =
\* (lastPrice - entry) / |entry| * 100 when lastPrice is known and entry > 0,
\* and no changePct in every other case.
C14_ChangePct ==
    [][\A name \in {"positions", "positionsNoPayload"} : Handled(name) =>
           \A i \in 1..Len(positions'.a) : ChangePctOk(positions'.a[i])
      ]_vars
\* the same for the positions signal of WsService
C14_WsChangePct ==
    [][WsPositionsStep =>
           \A i \in 1..Len(wsStore'.positions.a) : ChangePctOk(wsStore'.positions.a[i])
      ]_vars

\* the percentage change the claim gives the row: its enrichment when it is
\* a number, else the change computed from last_price and entry when both are
\* numbers and entry is not 0, else null
DeltaOf(row) ==
    IF Nullish(row) THEN Null
    ELSE LET c == Prop(row, "_changePct")
             l == Prop(row, "last_price")
             e == Prop(row, "entry")
         IN  IF IsNum(c) THEN c
             ELSE IF IsNum(l) /\ IsNum(e) /\ e.n # 0
                  THEN Num(((l.n - e.n) * 100) \div Abs(e.n))
                  ELSE Null

\* C15: the percentage change of a position is its precomputed enrichment
\* when it carries one, else (last - entry) / |entry| * 100 when both are
\* known and entry is not 0, else null: an unknown value never becomes 0.
C15_DeltaPercent ==
    fn \in {"computeDeltaPercent", "deltaPercent"} => ret = DeltaOf(arg)

\* the record a shares an address with the entity e: its pairAddress or its
\* tokenAddress is an address (not absent, not empty) and the one of e
Matches(a, e) ==
    \/ /\ Prop(a, "pairAddress") \notin {Undef, Null, Str("")}
       /\ Prop(a, "pairAddress") = Prop(e, "pairAddress")
    \/ /\ Prop(a, "tokenAddress") \notin {Undef, Null, Str("")}
       /\ Prop(a, "tokenAddress") = Prop(e, "tokenAddress")

\* C16: findBestAnalyticsForPosition / findBestAnalyticsForTrade return a
\* record of the store that shares its pairAddress or its tokenAddress with
\* the entity and that no such record exceeds in evaluatedAt; they return
\* null exactly when no record of the store shares an address with it.
C16_BestAnalytics ==
    fn \in {"findBestAnalyticsForPosition", "findBestAnalyticsForTrade"} /\ arg # Null =>
        LET matching == {i \in 1..Len(analytics) : Matches(analytics[i], arg)}
        IN  IF matching = {} THEN ret = Null
            ELSE /\ \E i \in matching : ret = analytics[i]
                 /\ \A i \in matching : EvalKey(analytics[i]) <= EvalKey(ret)
\* the more recent of two matching records was returned though it comes
\* second in the store, after a record that does not match
C16_Witness ==
    /\ fn = "findBestAnalyticsForTrade"
    /\ Len(analytics) = 2
    /\ ~Matches(analytics[1], arg)
    /\ Matches(analytics[2], arg)
    /\ ret = analytics[2]

\* C17: findOriginBuyTrade returns a BUY trade of the store with the
\* pairAddress of the position, and none of these trades is closer in time
\* (created_at) to the opened_at of the position, when it has one; it returns
\* null exactly when the store holds no BUY trade with that pairAddress.
C17_OriginBuyTrade ==
    fn = "findOriginBuyTrade" /\ arg # Null =>
        LET buys == {i \in 1..Len(trades.a) :
                        /\ trades.a[i].side = "BUY"
                        /\ trades.a[i].pairAddress = arg.pairAddress}
        IN  IF buys = {} THEN ret = Null
            ELSE /\ \E i \in buys : ret = trades.a[i]
                 /\ arg.opened_at > 0 =>
                        \A i \in buys :
                            Abs(ret.created_at - arg.opened_at)
                                <= Abs(trades.a[i].created_at - arg.opened_at)
\* the second BUY trade of the pair was returned, closer to the opening than
\* the first
C17_Witness ==
    /\ fn = "findOriginBuyTrade"
    /\ Len(trades.a) = 2
    /\ arg # Null
    /\ arg.opened_at > 0
    /\ \A i \in 1..2 : trades.a[i].side = "BUY" /\ trades.a[i].pairAddress = arg.pairAddress
    /\ ret = trades.a[2]
    /\ Abs(trades.a[2].created_at - arg.opened_at) < Abs(trades.a[1].created_at - arg.opened_at)

\* C18: for 2 <= threshold < len(points) the result of lttb starts with the
\* first point and ends with the last point; for threshold >= len(points) or
\* threshold <= 0 the result is the points given.
C18_LttbEnds ==
    fn = "lttb" =>
        LET n == Len(arg.points)
        IN  /\ 2 <= arg.threshold /\ arg.threshold < n =>
                  ret[1] = arg.points[1] /\ ret[Len(ret)] = arg.points[n]
            /\ arg.threshold >= n \/ arg.threshold <= 0 => ret = arg.points
\* five points were cut to four: the first, one of each of two buckets, the
\* last, which is not the point before it
C18_Witness ==
    /\ fn = "lttb"
    /\ Len(arg.points) = 5
    /\ arg.threshold = 4
    /\ Len(ret) = 4
    /\ arg.points[5] # arg.points[4]
    /\ ret[4] = arg.points[5]

CountIn(b) == Cardinality({i \in 1..Len(ret.bins) : ret.bins[i] = b})
\* a count within 1 of the whole numbers around n / 10
AboutATenth(count, n) ==
    /\ count >= (n \div 10) - 1
    /\ count <= ((n + 9) \div 10) + 1
Distinct(values) ==
    \A i, j \in 1..Len(values) : i # j => values[i] # values[j]
\* C20 as stated: every value of a sample goes to one bin of 0..9, and each of
\* the ten bins gets about a tenth of the values, within 1, repeated values
\* included.
C20_DecileBinsAnySample ==
    fn = "binIndex" =>
        /\ \A i \in 1..Len(arg) : ret.bins[i] \in 0..9
        /\ \A b \in 0..9 : AboutATenth(CountIn(b), Len(arg))
\* C20, amended: every value of a sample goes to one bin of 0..9; when the
\* values of the sample are pairwise distinct, each of the ten bins gets about
\* a tenth of the values, within 1.
C20_DecileBins ==
    fn = "binIndex" =>
        /\ Len(ret.bins) = Len(arg)
        /\ \A i \in 1..Len(arg) : ret.bins[i] \in 0..9
        /\ Distinct(arg) => \A b \in 0..9 : AboutATenth(CountIn(b), Len(arg))
\* twelve distinct values given out of order were binned: two bins hold two
\* values, the others one
C20_Witness ==
    /\ fn = "binIndex"
    /\ Len(arg) = 12
    /\ arg[1] > arg[2]
    /\ Distinct(arg)
    /\ Cardinality({b \in 0..9 : CountIn(b) = 2}) = 2
    /\ \A b \in 0..9 : CountIn(b) \in {1, 2}

RECURSIVE SumOf(_)
SumOf(counts) == IF counts = <<>> THEN 0 ELSE Head(counts) + SumOf(Tail(counts))
FiniteOf(values) == {i \in 1..Len(values) : IsFiniteNumber(values[i])}
\* C21: the counts of the 12 bins of a histogram sum to the number of finite
\* values of the sample; a value that is not finite is left out and does not
\* change the count of the finite values.
C21_HistogramCounts ==
    fn = "buildHistogram" => SumOf(ret) = Cardinality(FiniteOf(arg))

\* C22: in every statistic of a bucket (median line, Q1-Q3 band, median of a
\* drivers cell, win rate by score) a bucket of fewer than 3 samples is given
\* as a gap, null, and never as a number.
C22_SparseBucketIsGap ==
    fn \in {"median", "iqr", "cell", "winRate"} /\ Len(arg) < 3 => ret = Null
\* C22, for the median line alone, which does give the gap
C22_MedianLineGap ==
    fn = "median" /\ Len(arg) < 3 => ret = Null

\* the value of the metric of a row, read without an exception
MetricOf(def, r) == OptProp(OptProp(r, def.object), def.field)
\* the rows with a finite value of the metric and a finite PnL
RowsWith(def, places) ==
    {i \in places : /\ coerceNumber(MetricOf(def, arg.rows[i])) # Null
                    /\ getPnL(arg.rows[i], arg.mode) # Null}
\* C23: no rebuild of a chart or of the heatmap ends with an exception; a row
\* whose value for a metric is missing or not finite (a row without scores,
\* fundamentals or outcome included) is left out of the chart of that metric
\* and kept in the charts of the metrics it has.
C23_AggregationNeverThrows ==
    /\ fn \in ChartKey =>
          /\ ~ret.threw
          /\ ret.rows = RowsWith(DefOf(fn), 1..Len(arg.rows))
    /\ fn = "drivers" =>
          /\ ~ret.threw
          /\ \A key \in ChartKey : ret.rows[key] = RowsWith(DefOf(key), ClosedPlaces(arg.rows))

\* C24: every chart that is visible shows a series built from the current
\* collection and the current settings (axis mode, trend, IQR band, log-X):
\* a data load or a toggled control rebuilds the visible charts, and a chart
\* that becomes visible is rebuilt then.
C24_VisibleChartsAreCurrent ==
    \A kind \in ViewedKeys :
        analyticsPage.visible[kind] =>
            analyticsPage.series[kind] = BuiltFrom(analyticsPage, kind)
\* C24, for the part that holds: a chart that becomes visible is rebuilt from
\* the current collection and settings
C24_RebuiltWhenShown ==
    [][\A kind \in ViewedKeys :
          ~analyticsPage.visible[kind] /\ analyticsPage'.visible[kind] =>
              analyticsPage'.series[kind] = BuiltFrom(analyticsPage', kind)]_vars

\* the samples and the aggregate of cell i of the heatmap flagged
SamplesOf(i) == IF arg.heat = "drivers" THEN Len(arg.cells[i]) ELSE arg.cells[i].n
AggregateOf(i) ==
    IF arg.heat = "drivers" THEN quantileBy(SortAsc(PnlOf(arg.cells[i])), 1, 2)
    ELSE RateOf(arg.cells[i])
Sufficient == {i \in 1..Len(arg.cells) : SamplesOf(i) >= 3}
\* a is within 10% of b: a >= b - |b| / 10
WithinTenth(a, b) == 10 * a.num * b.den >= (10 * b.num - Abs(b.num)) * a.den
FlaggedAsClaimed(i) ==
    /\ i \in Sufficient
    /\ \E b \in Sufficient :
          /\ \A j \in Sufficient : FracGeq(AggregateOf(b), AggregateOf(j))
          /\ WithinTenth(AggregateOf(i), AggregateOf(b))
\* C25: in both heatmaps a cell is flagged exactly when it has at least 3
\* samples and its aggregate is within 10% of the best aggregate among the
\* cells with at least 3 samples; no cell is flagged when no cell has 3.
C25_FlaggedCells ==
    fn \in {"flagMask", "isFlagged"} =>
        \A i \in 1..Len(arg.cells) : ret[i] <=> FlaggedAsClaimed(i)
\* C25, for the drivers heatmap alone, which does flag as claimed
C25_DriversFlags ==
    fn = "flagMask" => \A i \in 1..Len(arg.cells) : ret[i] <=> FlaggedAsClaimed(i)

LiveSockets == {s \in Sockets : Live(s)}
\* C26: at every moment at most one socket created by the service is
\* CONNECTING or OPEN, whatever the order of connect() calls, reconnect timers
\* and socket events, a connect() during CLOSING included.
C26_OneLiveSocket == Cardinality(LiveSockets) <= 1

\* C27: the status agrees with the referenced socket: open only if that socket
\* is OPEN, connecting only if it is CONNECTING, closed only if no socket of
\* the service is CONNECTING or OPEN.
C27_StatusAgrees ==
    /\ status = "open" => socket # 0 /\ readyState[socket] = "OPEN"
    /\ status = "connecting" => socket # 0 /\ readyState[socket] = "CONNECTING"
    /\ status = "closed" => LiveSockets = {}

\* C28: a step that is no data message (a socket event, a connect() call, a
\* reconnect timer) leaves portfolio, positions, trades and analytics as they
\* are.
C28_StoreKeptAcrossReconnect ==
    [][nmsgs' = nmsgs => UNCHANGED store]_vars
\* the first socket delivered data and is closed, a second socket is being
\* connected and has delivered nothing: the store still holds the data
C28_Witness ==
    /\ nmsgs = 1
    /\ last = "init"
    /\ trades # Arr(<<>>)
    /\ nsock = 2
    /\ readyState[1] = "CLOSED"
    /\ readyState[2] = "CONNECTING"
    /\ socket = 2

\* C29: in every reachable state the analytics are ordered by evaluatedAt
\* descending; a single-record upsert keeps the order set by init or by an
\* array message.
C29_AnalyticsDescending ==
    \A i \in 1..(Len(analytics) - 1) :
        EvalKey(analytics[i]) >= EvalKey(analytics[i + 1])

\* C30: resetPaperPortfolio() sets isResetting; it stays true while the
\* request is pending and returns to false once the response has arrived,
\* success or failure, whatever the state of the WebSocket at that moment; on
\* success the refresh message is sent on the socket when it is open.
C30_ResetReturns ==
    /\ [](paperControl.request = "pending" => paperControl.isResetting)
    /\ [][/\ paperControl.request = "pending"
          /\ paperControl'.request = "none"
          /\ paperControl'.response = "next"
          /\ socket # 0
          /\ readyState[socket] = "OPEN"
          => socket \in paperControl'.sent]_vars
    /\ paperControl.isResetting ~> ~paperControl.isResetting
\* C30, for the socket states other than CONNECTING: the response of the
\* request leaves isResetting false
C30_ReturnsUnlessConnecting ==
    [][/\ paperControl.request = "pending"
       /\ paperControl'.request = "none"
       /\ ~(socket # 0 /\ readyState[socket] = "CONNECTING")
       => ~paperControl'.isResetting]_vars

====
